---- MODULE Spec2Model ----
(***************************************************************************)
(* design-tokens-sync: the token resolution and normalization pipeline of  *)
(* src/core/TokenProcessor.js (resolveTokenValue, resolveTokenReference,   *)
(* resolveAllTokenReferences, flattenTokenCategory, the extract* family    *)
(* and transformTokens), as operators over JSON values, driven by a state  *)
(* machine of one TokenProcessor and the tokens file it reads.             *)
(*                                                                         *)
(* JavaScript values are tagged records.  A string is the sequence of its  *)
(* characters; the digits and the characters the code inspects ("{", "}",  *)
(* ".", "-") are themselves, every other character of the alphabet is      *)
(* written as a mnemonic word ("core", "primary", "#3b82f6") and stands    *)
(* for one character that is none of the inspected ones.  An object is the *)
(* sequence of its own entries <<key, value>> in JavaScript property order *)
(* (array-index keys ascending, then the other keys in insertion order).   *)
(***************************************************************************)
EXTENDS Integers, Sequences, FiniteSets, TLC

VARIABLES
    tokensFile,   \* the parsed content of config.tokens.input (fs.readJSON)
    configFile,   \* the configuration loadConfig resolves to
    rawTokens,    \* this.rawTokens
    tokens,       \* this.tokens
    config,       \* this.config
    isLoading,    \* this.isLoading
    call,         \* the last call made and completed in one step: [op, arg, ret]
    pc,           \* the asynchronous calls in flight: where each caller stands
    log,          \* the calls made to the file generator and the git manager
    transforms,   \* the engine's this.transforms: name -> transform
    hooks         \* the build hooks' this.hooks: phase -> callbacks

vars ==
    <<tokensFile, configFile, rawTokens, tokens, config, isLoading, call, pc, log,
      transforms, hooks>>

-----------------------------------------------------------------------------
(* Bounds *)

\* Depth of nested resolveTokenValue calls at which the engine raises
\* RangeError (Maximum call stack size exceeded).  Every acyclic chain of the
\* inputs below is shorter.
MaxCallStack == 6

\* Longest reference chain / cycle t1 -> t2 -> ... -> tn of the chain inputs.
MaxChain == 4

-----------------------------------------------------------------------------
(* JavaScript values *)

Str(s) == [t |-> "string", s |-> s]
Num(n) == [t |-> "number", n |-> n]
Bool(b) == [t |-> "boolean", b |-> b]
Obj(e) == [t |-> "object", e |-> e]
Arr(a) == [t |-> "array", a |-> a]
Fn(name) == [t |-> "function", name |-> name]
Null == [t |-> "null"]
Undefined == [t |-> "undefined"]
Throw(name) == [t |-> "throw", name |-> name]

IsThrow(v) == v.t = "throw"
IsObj(v) == v.t = "object"
IsStr(v) == v.t = "string"

\* typeof v === 'object'  (true of null and of arrays)
TypeofObject(v) == v.t \in {"object", "array", "null"}

\* ToBoolean(v)
Truthy(v) ==
    CASE v.t = "string" -> v.s # <<>>
      [] v.t = "number" -> v.n # 0
      [] v.t = "boolean" -> v.b
      [] v.t \in {"null", "undefined"} -> FALSE
      [] OTHER -> TRUE

\* a || b
Or(a, b) == IF Truthy(a) THEN a ELSE b

Digits == <<"0", "1", "2", "3", "4", "5", "6", "7", "8", "9">>
DigitSet == {Digits[i] : i \in 1..10}
DigitVal(c) == (CHOOSE i \in 1..10 : Digits[i] = c) - 1

\* A canonical array index ("0", "7", "500"; not "", "05", "a").
IsArrayIndex(k) ==
    /\ Len(k) >= 1
    /\ \A i \in 1..Len(k) : k[i] \in DigitSet
    /\ (Len(k) > 1 => k[1] # "0")

RECURSIVE IndexVal(_)
IndexVal(k) ==
    IF k = <<>> THEN 0
    ELSE 10 * IndexVal(SubSeq(k, 1, Len(k) - 1)) + DigitVal(k[Len(k)])

\* String(i) for the indexes of the short arrays and strings of the model.
IndexKey(i) == <<Digits[i + 1]>>

\* Names every object inherits from Object.prototype; the model carries the
\* two that token paths can plausibly spell.
ObjectPrototypeKeys == {<<"constructor">>, <<"toString">>}

HasOwn(e, k) == \E i \in 1..Len(e) : e[i][1] = k
OwnValue(e, k) == e[CHOOSE i \in 1..Len(e) : e[i][1] = k][2]

\* obj[k] = v on a plain object: an existing key keeps its position, a new
\* array-index key goes in ascending position among the index keys, any other
\* new key goes last.
SetEntry(e, k, v) ==
    IF HasOwn(e, k)
    THEN [i \in 1..Len(e) |-> IF e[i][1] = k THEN <<k, v>> ELSE e[i]]
    ELSE IF IsArrayIndex(k)
    THEN LET pos == Cardinality({i \in 1..Len(e) :
                        IsArrayIndex(e[i][1]) /\ IndexVal(e[i][1]) < IndexVal(k)})
         IN SubSeq(e, 1, pos) \o <<<<k, v>>>> \o SubSeq(e, pos + 1, Len(e))
    ELSE Append(e, <<k, v>>)

\* Object.assign(target, source) on own entries.
RECURSIVE AssignFrom(_, _, _)
AssignFrom(target, source, i) ==
    IF i > Len(source) THEN target
    ELSE AssignFrom(SetEntry(target, source[i][1], source[i][2]), source, i + 1)

ObjectAssign(target, source) == AssignFrom(target, source, 1)

\* An object literal / a parsed JSON object with the given entries.
MkObj(entries) == Obj(ObjectAssign(<<>>, entries))

\* v[k] for a non-nullish v.  Objects and arrays answer with own properties
\* and with what they inherit; the code reads primitives only under fixed
\* names (colors, value, fontFamily, ...) that no primitive has.
GetProp(v, k) ==
    CASE v.t = "object" ->
            IF HasOwn(v.e, k) THEN OwnValue(v.e, k)
            ELSE IF k \in ObjectPrototypeKeys THEN Fn(k)
            ELSE Undefined
      [] v.t = "array" ->
            IF IsArrayIndex(k) /\ IndexVal(k) < Len(v.a) THEN v.a[IndexVal(k) + 1]
            ELSE IF k = <<"length">> THEN Num(Len(v.a))
            ELSE IF k \in ObjectPrototypeKeys THEN Fn(k)
            ELSE Undefined
      [] OTHER -> Undefined

\* v?.k
OptProp(v, k) == IF v.t \in {"null", "undefined"} THEN Undefined ELSE GetProp(v, k)

\* Object.entries(v) of a non-nullish v (a nullish v raises TypeError at the
\* call sites).
ObjectEntries(v) ==
    CASE v.t = "object" -> v.e
      [] v.t = "array" -> [i \in 1..Len(v.a) |-> <<IndexKey(i - 1), v.a[i]>>]
      [] v.t = "string" -> [i \in 1..Len(v.s) |-> <<IndexKey(i - 1), Str(<<v.s[i]>>)>>]
      [] OTHER -> <<>>

Nullish(v) == v.t \in {"null", "undefined"}

\* JSON.parse(JSON.stringify(v)): members holding undefined or a function are
\* dropped from objects and become null in arrays.
RECURSIVE JsonClone(_), JsonCloneEntries(_, _, _)
JsonClone(v) ==
    CASE v.t = "object" -> Obj(JsonCloneEntries(v.e, 1, <<>>))
      [] v.t = "array" ->
            Arr([i \in 1..Len(v.a) |->
                    IF v.a[i].t \in {"undefined", "function"} THEN Null
                    ELSE JsonClone(v.a[i])])
      [] v.t \in {"undefined", "function"} -> Throw("SyntaxError")
      [] OTHER -> v

JsonCloneEntries(e, i, acc) ==
    IF i > Len(e) THEN acc
    ELSE IF e[i][2].t \in {"undefined", "function"}
    THEN JsonCloneEntries(e, i + 1, acc)
    ELSE JsonCloneEntries(e, i + 1, SetEntry(acc, e[i][1], JsonClone(e[i][2])))

-----------------------------------------------------------------------------
(* Strings *)

StartsWith(s, c) == Len(s) >= 1 /\ s[1] = c
EndsWith(s, c) == Len(s) >= 1 /\ s[Len(s)] = c

\* s.split(sep) for a one-character separator
RECURSIVE SplitFrom(_, _, _, _, _)
SplitFrom(s, sep, i, cur, acc) ==
    IF i > Len(s) THEN Append(acc, cur)
    ELSE IF s[i] = sep THEN SplitFrom(s, sep, i + 1, <<>>, Append(acc, cur))
    ELSE SplitFrom(s, sep, i + 1, Append(cur, s[i]), acc)

Split(s, sep) == SplitFrom(s, sep, 1, <<>>, <<>>)

-----------------------------------------------------------------------------
(* Reference resolution: TokenProcessor.js 479-514 *)

\* The walk of resolveTokenReference's for loop from path part i on:
\* the node reached, or Undefined when a part is missing.
RECURSIVE WalkPath(_, _, _)
WalkPath(current, pathParts, i) ==
    IF i > Len(pathParts) THEN current
    ELSE IF Truthy(current) /\ TypeofObject(current)
            /\ GetProp(current, pathParts[i]) # Undefined
    THEN WalkPath(GetProp(current, pathParts[i]), pathParts, i + 1)
    ELSE Undefined

RECURSIVE resolveTokenValue(_, _, _, _), resolveTokenReference(_, _, _, _)

\* The end of resolveTokenReference returning the `value` it finds without
\* resolving it again: one hop only.
DereferenceOneHop(current, raw, thisRaw, depth) ==
    IF Truthy(current) /\ TypeofObject(current) /\ GetProp(current, <<"value">>) # Undefined
    THEN GetProp(current, <<"value">>)
    ELSE current

\* The end of resolveTokenReference, 505-513, for the node `current` the walk
\* reached: a node with a `value` is resolved again, anything else returned.
Dereference(current, raw, thisRaw, depth) ==
    IF Truthy(current) /\ TypeofObject(current) /\ GetProp(current, <<"value">>) # Undefined
    THEN resolveTokenValue(GetProp(current, <<"value">>), raw, thisRaw, depth + 1)
    ELSE current

\* resolveTokenReference(path, rawTokens), called at nesting depth `depth`.
resolveTokenReference(path, raw, thisRaw, depth) ==
    IF ~Truthy(raw) THEN Undefined
    ELSE Dereference(WalkPath(raw, Split(path, "."), 1), raw, thisRaw, depth)

\* resolvedValue !== undefined ? resolvedValue : value
DefinedOr(resolvedValue, value) == IF resolvedValue # Undefined THEN resolvedValue ELSE value

\* resolveTokenValue(value, rawTokens = null) with this.rawTokens = thisRaw.
\* The nested calls of a reference cycle never return; the engine ends them
\* with RangeError once the call stack is MaxCallStack deep.
resolveTokenValue(value, raw, thisRaw, depth) ==
    IF depth > MaxCallStack THEN Throw("RangeError")
    ELSE IF IsStr(value) /\ StartsWith(value.s, "{") /\ EndsWith(value.s, "}")
    THEN DefinedOr(resolveTokenReference(SubSeq(value.s, 2, Len(value.s) - 1),
                                         Or(IF raw = Undefined THEN Null ELSE raw, thisRaw),
                                         thisRaw, depth),
                   value)
    ELSE value

-----------------------------------------------------------------------------
(* Whole-tree resolution: TokenProcessor.js 389-413 *)

\* target[key] = value on the object built so far; an error raised while the
\* object was built, or by the value, takes its place.
Put(target, key, value) ==
    IF IsThrow(target) THEN target
    ELSE IF IsThrow(value) THEN value
    ELSE Obj(SetEntry(target.e, key, value))

\* The same for the array obj.map builds.
Push(target, value) ==
    IF IsThrow(target) THEN target
    ELSE IF IsThrow(value) THEN value
    ELSE Arr(Append(target.a, value))

\* resolveObject(obj) of resolveAllTokenReferences, resolving against
\* rawTokens.  A RangeError raised by a nested call ends the walk.
RECURSIVE resolveObject(_, _, _), resolveObjectEntries(_, _, _, _, _),
          resolveObjectItems(_, _, _, _, _)
resolveObject(obj, raw, thisRaw) ==
    CASE obj.t = "string" -> resolveTokenValue(obj, raw, thisRaw, 1)
      [] obj.t = "array" -> resolveObjectItems(obj.a, 1, Arr(<<>>), raw, thisRaw)
      [] obj.t = "object" -> resolveObjectEntries(obj.e, 1, Obj(<<>>), raw, thisRaw)
      [] OTHER -> obj

\* obj.map(item => resolveObject(item))
resolveObjectItems(a, i, acc, raw, thisRaw) ==
    IF IsThrow(acc) \/ i > Len(a) THEN acc
    ELSE resolveObjectItems(a, i + 1, Push(acc, resolveObject(a[i], raw, thisRaw)),
                            raw, thisRaw)

\* for (const [key, value] of Object.entries(obj)) resolvedObj[key] = ...
resolveObjectEntries(e, i, acc, raw, thisRaw) ==
    IF IsThrow(acc) \/ i > Len(e) THEN acc
    ELSE resolveObjectEntries(e, i + 1,
            Put(acc, e[i][1],
                IF e[i][1] = <<"value">> /\ IsStr(e[i][2])
                THEN resolveTokenValue(e[i][2], raw, thisRaw, 1)
                ELSE resolveObject(e[i][2], raw, thisRaw)),
            raw, thisRaw)

\* JSON.parse(JSON.stringify(rawTokens)), then resolveObject on the copy
ResolveCopy(resolved, raw, thisRaw) ==
    IF IsThrow(resolved) THEN resolved ELSE resolveObject(resolved, raw, thisRaw)

resolveAllTokenReferences(raw, thisRaw) == ResolveCopy(JsonClone(raw), raw, thisRaw)

-----------------------------------------------------------------------------
(* Structural normalization: TokenProcessor.js 132-384, 418-474 *)

K(c) == <<c>>
VALUE == <<"value">>

\* value && typeof value === 'object' && value.value !== undefined
IsTokenLeaf(value) ==
    Truthy(value) /\ TypeofObject(value) /\ GetProp(value, VALUE) # Undefined

\* value && typeof value === 'object' && !Array.isArray(value)
IsPlainObject(value) ==
    Truthy(value) /\ TypeofObject(value) /\ value.t # "array"

\* Object.keys(o).length === 0
NoKeys(o) == Len(ObjectEntries(o)) = 0

\* FlattenKey losing the prefix of nested groups.
FlattenKeyNoPrefix(prefix, key) == key

\* newKey = prefix ? `${prefix}-${key}` : key
FlattenKey(prefix, key) == IF prefix # <<>> THEN prefix \o <<"-">> \o key ELSE key

\* Object.assign(target, source) on the object built so far; an error raised
\* while either was built takes its place.
Assign(target, source) ==
    IF IsThrow(target) THEN target
    ELSE IF IsThrow(source) THEN source
    ELSE Obj(ObjectAssign(target.e, source.e))

\* flattenTokenCategory(obj, prefix) with this.rawTokens = thisRaw: the
\* flattened object, or the error a nested resolveTokenValue raised.
RECURSIVE flattenTokenCategory(_, _, _), flattenEntries(_, _, _, _, _)
flattenTokenCategory(obj, prefix, thisRaw) ==
    IF Nullish(obj) THEN Throw("TypeError")
    ELSE flattenEntries(ObjectEntries(obj), 1, Obj(<<>>), prefix, thisRaw)

flattenEntries(e, i, flattened, prefix, thisRaw) ==
    IF IsThrow(flattened) \/ i > Len(e) THEN flattened
    ELSE LET value == e[i][2]
             newKey == FlattenKey(prefix, e[i][1])
         IN flattenEntries(e, i + 1,
                IF IsTokenLeaf(value)
                THEN Put(flattened, newKey,
                         resolveTokenValue(GetProp(value, VALUE), thisRaw, thisRaw, 1))
                ELSE IF IsPlainObject(value)
                THEN Assign(flattened, flattenTokenCategory(value, newKey, thisRaw))
                ELSE Put(flattened, newKey, resolveTokenValue(value, thisRaw, thisRaw, 1)),
                prefix, thisRaw)

\* The inner forEach of preserveNestedStructure over the shades of a category.
RECURSIVE preserveShades(_, _, _, _)
preserveShades(e, i, acc, thisRaw) ==
    IF IsThrow(acc) \/ i > Len(e) THEN acc
    ELSE preserveShades(e, i + 1,
            Put(acc, e[i][1],
                IF IsTokenLeaf(e[i][2])
                THEN resolveTokenValue(GetProp(e[i][2], VALUE), thisRaw, thisRaw, 1)
                ELSE resolveTokenValue(e[i][2], thisRaw, thisRaw, 1)),
            thisRaw)

RECURSIVE preserveCategories(_, _, _, _)
preserveCategories(e, i, structured, thisRaw) ==
    IF IsThrow(structured) \/ i > Len(e) THEN structured
    ELSE IF IsPlainObject(e[i][2])
    THEN preserveCategories(e, i + 1,
            Put(structured, e[i][1],
                preserveShades(ObjectEntries(e[i][2]), 1, Obj(<<>>), thisRaw)),
            thisRaw)
    ELSE preserveCategories(e, i + 1, structured, thisRaw)

\* preserveNestedStructure(obj)
preserveNestedStructure(obj, thisRaw) ==
    IF Nullish(obj) THEN Throw("TypeError")
    ELSE preserveCategories(ObjectEntries(obj), 1, Obj(<<>>), thisRaw)

\* Object.assign(colors, a); Object.assign(colors, b), a and b computed first
\* to last; the first error raised ends the call.
AssignBoth(a, b) ==
    IF IsThrow(a) THEN a
    ELSE IF IsThrow(b) THEN b
    ELSE Obj(ObjectAssign(ObjectAssign(<<>>, a.e), b.e))

AssignOne(a) == IF IsThrow(a) THEN a ELSE Obj(ObjectAssign(<<>>, a.e))

EmptyObject == Obj(<<>>)

\* extractColors without the singular `color` dialect.
extractColorsPluralOnly(tree, thisRaw) ==
    LET coreColors == OptProp(GetProp(tree, K("core")), K("colors"))
        semanticColors == OptProp(GetProp(tree, K("semantic")), K("colors"))
    IN IF Truthy(coreColors) \/ Truthy(semanticColors)
       THEN AssignBoth(preserveNestedStructure(Or(coreColors, EmptyObject), thisRaw),
                       preserveNestedStructure(Or(semanticColors, EmptyObject), thisRaw))
       ELSE IF Truthy(GetProp(tree, K("colors")))
       THEN AssignOne(preserveNestedStructure(GetProp(tree, K("colors")), thisRaw))
       ELSE EmptyObject

\* extractColors(rawTokens)
extractColors(tree, thisRaw) ==
    LET coreColors == OptProp(GetProp(tree, K("core")), K("colors"))
        semanticColors == OptProp(GetProp(tree, K("semantic")), K("colors"))
    IN IF Truthy(coreColors) \/ Truthy(semanticColors)
       THEN AssignBoth(preserveNestedStructure(Or(coreColors, EmptyObject), thisRaw),
                       preserveNestedStructure(Or(semanticColors, EmptyObject), thisRaw))
       ELSE IF Truthy(GetProp(tree, K("color")))
       THEN AssignOne(preserveNestedStructure(GetProp(tree, K("color")), thisRaw))
       ELSE IF Truthy(GetProp(tree, K("colors")))
       THEN AssignOne(preserveNestedStructure(GetProp(tree, K("colors")), thisRaw))
       ELSE EmptyObject

\* The shape shared by extractSpacing and extractSizing: core.<category>,
\* else <category>, flattened into a fresh object.
extractCoreOrTop(tree, category, thisRaw) ==
    LET c == OptProp(GetProp(tree, K("core")), category)
    IN IF Truthy(c) THEN AssignOne(flattenTokenCategory(c, <<>>, thisRaw))
       ELSE IF Truthy(GetProp(tree, category))
       THEN AssignOne(flattenTokenCategory(GetProp(tree, category), <<>>, thisRaw))
       ELSE EmptyObject

extractSpacing(tree, thisRaw) == extractCoreOrTop(tree, K("spacing"), thisRaw)
extractSizing(tree, thisRaw) == extractCoreOrTop(tree, K("sizing"), thisRaw)

\* extractTokenCategory(rawTokens, category): the flattened category or null
extractTokenCategory(tree, category, thisRaw) ==
    LET c == OptProp(GetProp(tree, K("core")), category)
    IN IF Truthy(c) THEN flattenTokenCategory(c, <<>>, thisRaw)
       ELSE IF Truthy(GetProp(tree, category))
       THEN flattenTokenCategory(GetProp(tree, category), <<>>, thisRaw)
       ELSE Null

\* One entry of an object literal with a one-word key and a one-word string.
E(k, v) == <<K(k), Str(<<v>>)>>

\* The default value sets, TokenProcessor.js 210-213, 236-244, 269-322.
DefaultFontFamily ==
    MkObj(<<E("sans", "Inter, system-ui, sans-serif"), E("mono", "Fira Code, monospace")>>)
DefaultBorderRadius ==
    MkObj(<<E("none", "0"), E("sm", "0.125rem"), E("base", "0.25rem"), E("md", "0.375rem"),
            E("lg", "0.5rem"), E("xl", "0.75rem"), E("full", "9999px")>>)
DefaultShadows ==
    MkObj(<<E("sm", "0 1px 2px 0 rgb(0 0 0 / 0.05)"), E("md", "0 4px 6px -1px rgb(0 0 0 / 0.1)"),
            E("lg", "0 10px 15px -3px rgb(0 0 0 / 0.1)"),
            E("xl", "0 20px 25px -5px rgb(0 0 0 / 0.1)")>>)
DefaultOpacity ==
    MkObj(<< <<<<"0">>, Str(<<"0">>)>>, <<<<"2", "5">>, Str(<<"0.25">>)>>,
             <<<<"5", "0">>, Str(<<"0.5">>)>>, <<<<"7", "5">>, Str(<<"0.75">>)>>,
             <<<<"1", "0", "0">>, Str(<<"1">>)>> >>)
DefaultZIndex ==
    MkObj(<< <<K("auto"), Num(0)>>, <<K("base"), Num(1)>>, <<K("dropdown"), Num(1000)>>,
             <<K("modal"), Num(1040)>>, <<K("popover"), Num(1050)>>,
             <<K("tooltip"), Num(1060)>> >>)
DefaultDuration ==
    MkObj(<<E("fast", "150ms"), E("normal", "300ms"), E("slow", "500ms")>>)
DefaultEasing ==
    MkObj(<< E("linear", "linear"), E("ease", "ease"),
             <<<<"ease", "-", "in">>, Str(<<"ease", "-", "in">>)>>,
             <<<<"ease", "-", "out">>, Str(<<"ease", "-", "out">>)>>,
             <<<<"ease", "-", "in", "-", "out">>, Str(<<"ease", "-", "in", "-", "out">>)>> >>)
DefaultBreakpoints ==
    MkObj(<< E("sm", "640px"), E("md", "768px"), E("lg", "1024px"), E("xl", "1280px"),
             <<<<"2", "xl">>, Str(<<"1536px">>)>> >>)

\* The five typography sub-categories, in the order of the object literal.
TypographyKeys ==
    <<K("fontFamily"), K("fontSize"), K("fontWeight"), K("lineHeight"), K("letterSpacing")>>

\* The Token Studio `text` dialect: source sub-key -> typography field.
TextDialect ==
    << <<K("font family"), K("fontFamily")>>,
       <<<<"font", "-", "size">>, K("fontSize")>>,
       <<K("font weight"), K("fontWeight")>>,
       <<K("font line height"), K("lineHeight")>> >>

\* if (typoData[from]) typography[to] = flattenTokenCategory(typoData[from]),
\* for the pairs <<from, to>> of `pairs`, in order.
RECURSIVE typographyFill(_, _, _, _, _)
typographyFill(typography, typoData, pairs, i, thisRaw) ==
    IF IsThrow(typography) \/ i > Len(pairs) THEN typography
    ELSE IF Truthy(OptProp(typoData, pairs[i][1]))
    THEN typographyFill(
            Put(typography, pairs[i][2],
                flattenTokenCategory(GetProp(typoData, pairs[i][1]), <<>>, thisRaw)),
            typoData, pairs, i + 1, thisRaw)
    ELSE typographyFill(typography, typoData, pairs, i + 1, thisRaw)

\* "Provide defaults if empty" of extractTypography
FontFamilyDefault(typography) ==
    IF IsThrow(typography) THEN typography
    ELSE IF NoKeys(GetProp(typography, K("fontFamily")))
    THEN Obj(SetEntry(typography.e, K("fontFamily"), DefaultFontFamily))
    ELSE typography

\* extractTypography(rawTokens)
extractTypography(tree, thisRaw) ==
    LET empty == Obj([i \in 1..5 |-> <<TypographyKeys[i], EmptyObject>>])
        typoData == Or(OptProp(GetProp(tree, K("core")), K("typography")),
                       Or(GetProp(tree, K("typography")),
                          Or(GetProp(tree, K("text")), EmptyObject)))
    IN FontFamilyDefault(
        IF Truthy(GetProp(tree, K("text")))
        THEN typographyFill(empty, typoData, TextDialect, 1, thisRaw)
        ELSE typographyFill(empty, typoData,
                            [i \in 1..5 |-> <<TypographyKeys[i], TypographyKeys[i]>>],
                            1, thisRaw))

\* extractBorderRadius without its defaults.
BorderRadiusNoDefault(borderRadius) == borderRadius

\* "Provide defaults" of extractBorderRadius
BorderRadiusDefault(borderRadius) ==
    IF IsThrow(borderRadius) THEN borderRadius
    ELSE IF NoKeys(borderRadius) THEN DefaultBorderRadius
    ELSE borderRadius

\* extractBorderRadius(rawTokens)
extractBorderRadius(tree, thisRaw) ==
    LET c == OptProp(GetProp(tree, K("core")), K("borderRadius"))
    IN BorderRadiusDefault(
        IF Truthy(c) THEN AssignOne(flattenTokenCategory(c, <<>>, thisRaw))
        ELSE IF Truthy(GetProp(tree, K("borderRadius")))
        THEN AssignOne(flattenTokenCategory(GetProp(tree, K("borderRadius")), <<>>, thisRaw))
        ELSE IF Truthy(GetProp(tree, K("radius")))
        THEN AssignOne(flattenTokenCategory(GetProp(tree, K("radius")), <<>>, thisRaw))
        ELSE EmptyObject)

\* The extract without `|| defaults`: null for a category that is absent.
CategoryNoDefault(tree, category, defaults, thisRaw) ==
    extractTokenCategory(tree, category, thisRaw)

\* extractTokenCategory(rawTokens, category) || defaults
CategoryOrDefault(tree, category, defaults, thisRaw) ==
    Or(extractTokenCategory(tree, category, thisRaw), defaults)

extractShadows(tree, thisRaw) ==
    CategoryOrDefault(tree, K("shadows"), DefaultShadows, thisRaw)
extractOpacity(tree, thisRaw) ==
    CategoryOrDefault(tree, K("opacity"), DefaultOpacity, thisRaw)
extractZIndex(tree, thisRaw) ==
    CategoryOrDefault(tree, K("zIndex"), DefaultZIndex, thisRaw)
extractBreakpoints(tree, thisRaw) ==
    CategoryOrDefault(tree, K("breakpoints"), DefaultBreakpoints, thisRaw)

\* { duration: ..., easing: ... } of extractTransitions
Transitions(duration, easing) ==
    IF IsThrow(duration) THEN duration
    ELSE IF IsThrow(easing) THEN easing
    ELSE MkObj(<< <<K("duration"), duration>>, <<K("easing"), easing>> >>)

\* extractTransitions(rawTokens)
extractTransitions(tree, thisRaw) ==
    Transitions(CategoryOrDefault(tree, K("transitionDuration"), DefaultDuration, thisRaw),
                CategoryOrDefault(tree, K("transitionEasing"), DefaultEasing, thisRaw))

\* extractSemanticTokens(rawTokens)
RECURSIVE semanticCategories(_, _, _, _)
semanticCategories(e, i, semantic, thisRaw) ==
    IF IsThrow(semantic) \/ i > Len(e) THEN semantic
    ELSE semanticCategories(e, i + 1,
            Put(semantic, e[i][1], preserveNestedStructure(e[i][2], thisRaw)), thisRaw)

extractSemanticTokens(tree, thisRaw) ==
    IF Truthy(GetProp(tree, K("semantic")))
    THEN semanticCategories(ObjectEntries(GetProp(tree, K("semantic"))), 1, Obj(<<>>), thisRaw)
    ELSE EmptyObject

\* The "Nested properties" branch of extractComponentProperties, 369-376:
\* a sub-value that is no token leaf is stored as it is.
SubValue(subValue, thisRaw) ==
    IF IsTokenLeaf(subValue)
    THEN resolveTokenValue(GetProp(subValue, VALUE), thisRaw, thisRaw, 1)
    ELSE subValue

RECURSIVE componentSubProps(_, _, _, _)
componentSubProps(e, i, acc, thisRaw) ==
    IF IsThrow(acc) \/ i > Len(e) THEN acc
    ELSE componentSubProps(e, i + 1, Put(acc, e[i][1], SubValue(e[i][2], thisRaw)), thisRaw)

RECURSIVE componentProps(_, _, _, _)
componentProps(e, i, properties, thisRaw) ==
    IF IsThrow(properties) \/ i > Len(e) THEN properties
    ELSE componentProps(e, i + 1,
            Put(properties, e[i][1],
                IF IsTokenLeaf(e[i][2])
                THEN resolveTokenValue(GetProp(e[i][2], VALUE), thisRaw, thisRaw, 1)
                ELSE IF IsPlainObject(e[i][2])
                THEN componentSubProps(ObjectEntries(e[i][2]), 1, Obj(<<>>), thisRaw)
                ELSE resolveTokenValue(e[i][2], thisRaw, thisRaw, 1)),
            thisRaw)

\* extractComponentProperties(componentData)
extractComponentProperties(componentData, thisRaw) ==
    IF Nullish(componentData) THEN Throw("TypeError")
    ELSE componentProps(ObjectEntries(componentData), 1, Obj(<<>>), thisRaw)

\* extractComponentTokens(rawTokens)
RECURSIVE componentNames(_, _, _, _)
componentNames(e, i, component, thisRaw) ==
    IF IsThrow(component) \/ i > Len(e) THEN component
    ELSE componentNames(e, i + 1,
            Put(component, e[i][1], extractComponentProperties(e[i][2], thisRaw)), thisRaw)

extractComponentTokens(tree, thisRaw) ==
    IF Truthy(GetProp(tree, K("component")))
    THEN componentNames(ObjectEntries(GetProp(tree, K("component"))), 1, Obj(<<>>), thisRaw)
    ELSE EmptyObject

\* The first error among the values of the entries, or the object they make.
RECURSIVE ObjectOrThrow(_, _)
ObjectOrThrow(entries, i) ==
    IF i > Len(entries) THEN MkObj(entries)
    ELSE IF IsThrow(entries[i][2]) THEN entries[i][2]
    ELSE ObjectOrThrow(entries, i + 1)

\* The model transformTokens builds from the resolved and the processed
\* tree, 103-126.
Model(resolvedTokens, processedTokens, thisRaw) ==
    IF IsThrow(resolvedTokens) THEN resolvedTokens
    ELSE ObjectOrThrow(
         << <<K("colors"), extractColors(processedTokens, thisRaw)>>,
            <<K("spacing"), extractSpacing(processedTokens, thisRaw)>>,
            <<K("typography"), extractTypography(processedTokens, thisRaw)>>,
            <<K("borderRadius"), extractBorderRadius(processedTokens, thisRaw)>>,
            <<K("sizing"), extractSizing(processedTokens, thisRaw)>>,
            <<K("shadows"), extractShadows(processedTokens, thisRaw)>>,
            <<K("opacity"), extractOpacity(processedTokens, thisRaw)>>,
            <<K("zIndex"), extractZIndex(processedTokens, thisRaw)>>,
            <<K("transitions"), extractTransitions(processedTokens, thisRaw)>>,
            <<K("breakpoints"), extractBreakpoints(processedTokens, thisRaw)>>,
            <<K("semantic"), extractSemanticTokens(processedTokens, thisRaw)>>,
            <<K("component"), extractComponentTokens(processedTokens, thisRaw)>>,
            E("source", "tokens.json"),
            E("lastLoaded", "new Date().toISOString()"),
            <<K("_resolvedTokens"), resolvedTokens>>,
            <<K("_processedTokens"), processedTokens>> >>, 1)

\* The transforms and filters step of transformTokens, 91-101.  this.config
\* has no `transforms` and no `filters` (the configuration schema of
\* utils/config.js admits neither key), so processedTokens is resolvedTokens.
Processed(resolvedTokens, thisRaw) == Model(resolvedTokens, resolvedTokens, thisRaw)

\* transformTokens(rawTokens) with this.rawTokens = thisRaw.
transformTokens(raw, thisRaw) == Processed(resolveAllTokenReferences(raw, thisRaw), thisRaw)

-----------------------------------------------------------------------------
(* The token documents the tokens file may hold *)

\* "{path}"
Ref(path) == Str(<<"{">> \o path \o <<"}">>)
\* {value: v} and {value: v, type: ty}
Leaf(v) == MkObj(<< <<VALUE, v>> >>)
TypedLeaf(v, ty) == MkObj(<< <<VALUE, v>>, E("type", ty) >>)
Lit(c) == Str(<<c>>)

\* Reference chains and cycles of value leaves t1 .. tn.
T(i) == <<"t", Digits[i + 1]>>
ChainTree(n, last) ==
    MkObj([i \in 1..n |-> <<T(i), Leaf(IF i < n THEN Ref(T(i + 1)) ELSE last)>>])
ChainTrees ==
    {ChainTree(n, Lit("x")) : n \in 1..MaxChain}
        \cup {ChainTree(n, Ref(T(1))) : n \in 1..MaxChain}

\* Three tokens a, b, c in mixes of value leaf, bare string and group: a
\* holds a reference, b and c a literal, a reference to one another or to a
\* path that is missing (zz, and c.k when c is no group).
AValues == {Ref(<<"b">>), Ref(<<"c">>), Ref(<<"c", ".", "k">>), Ref(<<"zz">>)}
BValues == AValues \cup {Lit("x"), Ref(<<"a">>)}
CValues == {Lit("x"), Ref(<<"a">>), Ref(<<"zz">>)}
Nodes(values) == {Leaf(v) : v \in values} \cup values
Groups(values) == {MkObj(<< <<K("k"), n>> >>) : n \in Nodes(values)}
RefTrees ==
    {MkObj(<< <<K("a"), a>>, <<K("b"), b>>, <<K("c"), c>> >>) :
        a \in Nodes(AValues), b \in Nodes(BValues),
        c \in Nodes(CValues) \cup Groups(CValues)}

\* Shapes outside the grid above: a reference inside a larger string, the
\* empty reference, references in an array, a reference to a group, numbers
\* and null, names that objects inherit (constructor, toString), an array
\* as a path target.
EdgeTrees ==
    {MkObj(<< <<K("a"), Leaf(Str(<<"pre", "{", "b", "}">>))>>, <<K("b"), Leaf(Lit("x"))>> >>),
     MkObj(<< <<K("a"), Leaf(Ref(<<>>))>>, <<K("b"), Leaf(Str(<<"{">>))>> >>),
     MkObj(<< <<K("a"), Leaf(Arr(<<Ref(<<"b">>), Lit("y"), Num(2)>>))>>,
              <<K("b"), Leaf(Lit("x"))>> >>),
     MkObj(<< <<K("a"), Leaf(Ref(<<"g">>))>>,
              <<K("g"), MkObj(<< <<K("k"), Leaf(Ref(<<"b">>))>> >>)>>,
              <<K("b"), Leaf(Lit("x"))>> >>),
     MkObj(<< <<K("a"), Leaf(Ref(<<"b">>))>>, <<K("b"), Leaf(Num(0))>>,
              <<K("c"), Leaf(Ref(<<"n">>))>>, <<K("n"), Null>> >>),
     MkObj(<< <<K("a"), Leaf(Ref(<<"constructor">>))>>, <<K("b"), Ref(<<"a", ".", "toString">>)>>,
              <<K("c"), Leaf(Ref(<<"a">>))>> >>),
     MkObj(<< <<K("a"), Leaf(Ref(<<"b", ".", "1">>))>>,
              <<K("b"), Arr(<<Lit("x"), Lit("y")>>)>>,
              <<K("c"), Leaf(Ref(<<"b", ".", "length">>))>> >>)}

\* The three-tier document of the README: core.colors.primary.500,
\* semantic.colors.brand.primary and component.button.primary.backgroundColor,
\* each written as a {value, type} leaf or as a bare string.
TierToken(v, bare) == IF bare THEN v ELSE TypedLeaf(v, "color")
TierTree(b1, b2, b3, target) ==
    MkObj(<<
      <<K("core"), MkObj(<< <<K("colors"), MkObj(<< <<K("primary"),
            MkObj(<< <<<<"5", "0", "0">>, TierToken(Lit("#3b82f6"), b1)>> >>)>> >>)>> >>)>>,
      <<K("semantic"), MkObj(<< <<K("colors"), MkObj(<< <<K("brand"),
            MkObj(<< <<K("primary"),
                TierToken(Ref(<<"core", ".", "colors", ".", "primary", ".", "5", "0", "0">>),
                          b2)>> >>)>> >>)>> >>)>>,
      <<K("component"), MkObj(<< <<K("button"), MkObj(<< <<K("primary"),
            MkObj(<< <<K("backgroundColor"), TierToken(Ref(target), b3)>> >>)>> >>)>> >>)>> >>)
TierTargets ==
    {<<"semantic", ".", "colors", ".", "brand", ".", "primary">>,
     <<"core", ".", "colors", ".", "primary", ".", "5", "0", "0">>}
TierTrees ==
    {TierTree(b1, b2, b3, target) : b1 \in BOOLEAN, b2 \in BOOLEAN, b3 \in BOOLEAN,
                                    target \in TierTargets}

\* The three color dialects of one literal color v.
ColorLiterals == {Lit("#fff"), Lit("#3b82f6"), Lit("red"), Str(<<>>)}
Shade500(v) == MkObj(<< <<K("primary"), MkObj(<< <<<<"5", "0", "0">>, v>> >>)>> >>)
Dialect(d, v) ==
    CASE d = "colors" -> MkObj(<< <<K("colors"), Shade500(v)>> >>)
      [] d = "color" -> MkObj(<< <<K("color"), Shade500(v)>> >>)
      [] d = "core.colors" ->
            MkObj(<< <<K("core"), MkObj(<< <<K("colors"), Shade500(Leaf(v))>> >>)>> >>)
Dialects == {"colors", "color", "core.colors"}
DialectTrees == {Dialect(d, v) : d \in Dialects, v \in ColorLiterals}

\* Scalar-category subtrees under `spacing`: value leaves, bare values, nested
\* groups, a key that already holds a dash ("group-lg") and the empty key.
SmNodes ==
    {Undefined, Leaf(Lit("4px")), Lit("4px"),
     Leaf(Ref(<<"spacing", ".", "group", ".", "lg">>)), Num(4), Null}
GroupNodes ==
    {Undefined, MkObj(<< <<K("lg"), Leaf(Lit("8px"))>> >>), MkObj(<< <<K("lg"), Lit("8px")>> >>),
     EmptyObject,
     MkObj(<< <<K("lg"), MkObj(<< <<K("xl"), Leaf(Lit("8px"))>> >>)>> >>)}
DashNodes == {Undefined, Leaf(Lit("9px"))}
EmptyKeyNodes == {Undefined, MkObj(<< <<K("sm"), Leaf(Lit("2px"))>> >>)}

\* The object literal of the entries whose value is not undefined.
Present(entries) == MkObj(SelectSeq(entries, LAMBDA en : en[2] # Undefined))

FlattenTrees ==
    {MkObj(<< <<K("spacing"),
                Present(<< <<K("sm"), sm>>, <<K("group"), g>>,
                           <<<<"group", "-", "lg">>, d>>, <<<<>>, ek>> >>)>> >>) :
        sm \in SmNodes, g \in GroupNodes, d \in DashNodes, ek \in EmptyKeyNodes}

\* Categories with a default value set, supplied at the top level, under
\* core, or both, as an empty object, a populated one, null, or a primitive.
Populated == MkObj(<< <<K("sm"), Leaf(Lit("1px"))>> >>)
CategoryContents == {EmptyObject, Populated, Null, Lit("ab"), Num(0)}
DefaultedCategories ==
    {K("borderRadius"), K("radius"), K("shadows"), K("opacity"), K("zIndex"),
     K("transitionDuration"), K("transitionEasing"), K("breakpoints")}
CategoryTrees ==
    {MkObj(<< <<c, x>> >>) : c \in DefaultedCategories, x \in CategoryContents}
      \cup {MkObj(<< <<K("core"), MkObj(<< <<c, x>> >>)>> >>) :
                c \in DefaultedCategories, x \in CategoryContents}
      \cup {MkObj(<< <<K("core"), MkObj(<< <<c, x>> >>)>>, <<c, y>> >>) :
                c \in DefaultedCategories, x \in {EmptyObject, Null},
                y \in {EmptyObject, Populated}}
      \cup {MkObj(<< <<K("borderRadius"), x>>, <<K("radius"), Populated>> >>) :
                x \in CategoryContents}

\* Typography under core.typography, typography or text, with some, all or
\* none of its sub-categories, in canonical and in Token Studio names.
TypographyContents ==
    {EmptyObject,
     MkObj(<< <<K("fontSize"), MkObj(<< <<K("base"), Leaf(Lit("16px"))>> >>)>> >>),
     MkObj(<< <<K("fontFamily"), MkObj(<< <<K("sans"), Leaf(Lit("Arial"))>> >>)>> >>),
     MkObj(<< <<K("fontFamily"), EmptyObject>>,
              <<K("lineHeight"), MkObj(<< <<K("tight"), Lit("1.25")>> >>)>> >>),
     MkObj(<< <<K("font family"), MkObj(<< <<K("sans"), Leaf(Lit("Arial"))>> >>)>>,
              <<<<"font", "-", "size">>, MkObj(<< <<K("base"), Leaf(Lit("16px"))>> >>)>> >>),
     MkObj(<< <<K("font weight"), MkObj(<< <<K("bold"), Leaf(Lit("700"))>> >>)>> >>)}
TypographyTrees ==
    {MkObj(<< <<k, x>> >>) : k \in {K("typography"), K("text")}, x \in TypographyContents}
      \cup {MkObj(<< <<K("core"), MkObj(<< <<K("typography"), x>> >>)>> >>) :
                x \in TypographyContents}
      \cup {MkObj(<< <<K("text"), x>>, <<K("typography"), y>> >>) :
                x \in TypographyContents, y \in TypographyContents}

\* Semantic and component trees with a null or primitive member, and roots
\* whose `core` is no object.
OddTrees ==
    {EmptyObject,
     MkObj(<< <<K("semantic"), MkObj(<< <<K("brand"), Null>> >>)>> >>),
     MkObj(<< <<K("component"), MkObj(<< <<K("button"), Null>> >>)>> >>),
     MkObj(<< <<K("semantic"), Lit("ab")>>, <<K("component"), Lit("ab")>> >>),
     MkObj(<< <<K("component"), MkObj(<< <<K("button"),
                MkObj(<< <<K("padding"), Lit("4px")>>,
                         <<K("sizes"), Arr(<<Lit("sm"), Lit("lg")>>)>> >>)>> >>)>> >>),
     MkObj(<< <<K("core"), Null>>, <<K("colors"), Shade500(Lit("#fff"))>> >>),
     MkObj(<< <<K("core"), Lit("ab")>>, <<K("shadows"), Populated>> >>)}

\* Color trees that are not two levels deep: a scalar right under colors, a
\* group of shades one level further down, next to a category of two levels.
ColorShapes ==
    {MkObj(<< <<K("white"), Lit("#fff")>> >>),
     MkObj(<< <<K("white"), Leaf(Lit("#fff"))>> >>),
     MkObj(<< <<K("brand"), Shade500(Lit("#fff"))>> >>),
     MkObj(<< <<K("brand"), Shade500(Leaf(Lit("#fff")))>> >>),
     MkObj(<< <<K("primary"), MkObj(<< <<<<"5", "0", "0">>, Lit("red")>> >>)>>,
              <<K("white"), Lit("#fff")>> >>)}
ColorShapeTrees ==
    {MkObj(<< <<K("colors"), c>> >>) : c \in ColorShapes}
        \cup {MkObj(<< <<K("core"), MkObj(<< <<K("colors"), c>> >>)>> >>) : c \in ColorShapes}

Documents ==
    ChainTrees \cup RefTrees \cup EdgeTrees \cup TierTrees \cup DialectTrees
        \cup FlattenTrees \cup CategoryTrees \cup TypographyTrees \cup OddTrees
        \cup ColorShapeTrees

-----------------------------------------------------------------------------
(* Configurations and callers *)

\* A configuration with tokens.validation lists and git.enabled
Config(required, optional, enabled) ==
    MkObj(<< <<K("tokens"),
               MkObj(<< <<K("input"), Lit("tokens.json")>>,
                        <<K("validation"),
                          MkObj(<< <<K("required"), Arr(required)>>,
                                   <<K("optional"), Arr(optional)>> >>)>> >>)>>,
             <<K("git"), MkObj(<< <<K("enabled"), enabled>> >>)>> >>)

Dotted(a, b) == Str(<<a, ".", b>>)

\* templates/init/design-tokens.config.js
TemplateConfig ==
    Config(<<Lit("colors")>>, <<Lit("spacing"), Lit("typography")>>, Bool(TRUE))

\* The configuration TOKEN_STUDIO_STRUCTURE.md and the init template for
\* React prescribe.
DocumentedConfig ==
    Config(<<Dotted("core", "colors"), Dotted("core", "spacing"), Dotted("core", "typography")>>,
           <<Dotted("semantic", "colors"), Lit("component"),
             Dotted("core", "borderRadius"), Dotted("core", "shadows")>>,
           Bool(FALSE))

\* Other configurations: without tokens.validation, with both spellings of
\* colors required (cli/init.js), with empty lists.
Configs ==
    {TemplateConfig, DocumentedConfig,
     MkObj(<< <<K("tokens"), MkObj(<< <<K("input"), Lit("tokens.json")>> >>)>>,
              <<K("git"), MkObj(<< <<K("enabled"), Bool(FALSE)>> >>)>> >>),
     Config(<<Dotted("core", "colors"), Lit("colors")>>, <<Lit("spacing")>>,
            Bool(TRUE)),
     Config(<<>>, <<>>, Bool(FALSE))}

\* The callers that may have a call of the processor in flight
MaxCallers == 3
Callers == 1..MaxCallers
Idle == [at |-> "idle"]

\* One caller's position becomes `at`
Goto(c, at) == [pc EXCEPT ![c] = at]
Done(ret) == [at |-> "done", ret |-> ret]
Failed(message) == [t |-> "throw", name |-> "Error", message |-> message]

-----------------------------------------------------------------------------
(* The registries of the transform engine and of the build hooks *)

\* The transforms registerBuiltInTransforms registers, 18-73.
BuiltInTransforms ==
    {"color/hex", "color/hexAlpha", "size/rem", "typography/css/shorthand", "name/kebab"}

\* this.transforms after the constructor of the engine, 6-13
registerBuiltInTransforms ==
    [name \in {Lit(n) : n \in BuiltInTransforms} |-> [kind |-> "builtin", name |-> name]]

\* The phases of BuildHooks.js 7-14, and this.hooks after the constructor
Phases ==
    {"beforeProcess", "afterProcess", "beforeGenerate", "afterGenerate",
     "beforeValidate", "afterValidate"}
NoHooks == [phase \in Phases |-> <<>>]

\* this.hooks after registerCommonHooks, 49-81, which the constructor of the
\* processor calls (TokenProcessor.js 28)
registerCommonHooks ==
    [NoHooks EXCEPT !["afterProcess"] = <<[does |-> "metadata"]>>,
                    !["beforeValidate"] = <<[does |-> "validateReferences"]>>,
                    !["beforeGenerate"] = <<[does |-> "customCSS"]>>]

-----------------------------------------------------------------------------
(* The processor *)

\* Every string held anywhere in a tree.
RECURSIVE StringsIn(_)
StringsIn(v) ==
    CASE v.t = "string" -> {v}
      [] v.t = "array" -> UNION {StringsIn(v.a[i]) : i \in 1..Len(v.a)}
      [] v.t = "object" -> UNION {StringsIn(v.e[i][2]) : i \in 1..Len(v.e)}
      [] OTHER -> {}

\* The categories flattenTokenCategory is called on.
ScalarCategories ==
    {K("spacing"), K("sizing"), K("borderRadius"), K("radius"), K("shadows"), K("opacity"),
     K("zIndex"), K("transitionDuration"), K("transitionEasing"), K("breakpoints")}

\* The subtrees of a document that a scalar category names.
CategorySubtrees(tree) ==
    {x \in {GetProp(tree, c) : c \in ScalarCategories}
            \cup {OptProp(GetProp(tree, K("core")), c) : c \in ScalarCategories} :
        IsPlainObject(x)}

Called(op, arg, ret, pass) == [op |-> op, arg |-> arg, ret |-> ret, pass |-> pass]

\* constructor: 16-30
Init ==
    /\ tokensFile \in Documents
    /\ configFile = TemplateConfig
    /\ config = configFile
    /\ rawTokens = Undefined
    /\ tokens = Null
    /\ isLoading = FALSE
    /\ call = Called("new", Undefined, Undefined, 0)
    /\ pc = [c \in Callers |-> Idle]
    /\ log = <<>>
    /\ transforms = registerBuiltInTransforms
    /\ hooks = registerCommonHooks

\* loadTokens(forceReload) by a single caller with the configuration loaded:
\* 43-82.  A cached model is returned unless forceReload; otherwise the file
\* is read, kept in this.rawTokens and transformed; an error leaves
\* this.tokens as it was.
LoadTokens(forceReload) ==
    IF Truthy(tokens) /\ ~forceReload
    THEN /\ call' = Called("loadTokens", Undefined, tokens, 0)
         /\ UNCHANGED <<tokensFile, configFile, rawTokens, tokens, config, isLoading, pc, log, transforms, hooks>>
    ELSE LET model == transformTokens(tokensFile, tokensFile)
         IN /\ rawTokens' = tokensFile
            /\ tokens' = IF IsThrow(model) THEN tokens ELSE model
            /\ call' = Called("loadTokens", tokensFile, model, 0)
            /\ UNCHANGED <<tokensFile, configFile, config, isLoading, pc, log, transforms, hooks>>

\* processor.transformTokens(tree) on the document of the file: 87-127
CallTransformTokens ==
    /\ call' = Called("transformTokens", tokensFile,
                      transformTokens(tokensFile, rawTokens), 0)
    /\ UNCHANGED <<tokensFile, configFile, rawTokens, tokens, config, isLoading, pc, log, transforms, hooks>>

\* processor.resolveTokenValue(value, tree) for a string of the document: 479-487
CallResolveTokenValue ==
    \E value \in StringsIn(tokensFile) :
        /\ call' = Called("resolveTokenValue", value,
                          resolveTokenValue(value, tokensFile, rawTokens, 1), 0)
        /\ UNCHANGED <<tokensFile, configFile, rawTokens, tokens, config, isLoading, pc, log, transforms, hooks>>

\* processor.resolveAllTokenReferences(tree) on the document: 389-413
CallResolveAll ==
    /\ call' = Called("resolveAllTokenReferences", tokensFile,
                      resolveAllTokenReferences(tokensFile, rawTokens), 1)
    /\ UNCHANGED <<tokensFile, configFile, rawTokens, tokens, config, isLoading, pc, log, transforms, hooks>>

\* A second resolution pass, over the tree the first pass returned.
CallResolveAllAgain ==
    /\ call.op = "resolveAllTokenReferences"
    /\ call.pass = 1
    /\ ~IsThrow(call.ret)
    /\ call' = Called("resolveAllTokenReferences", call.ret,
                      resolveAllTokenReferences(call.ret, rawTokens), 2)
    /\ UNCHANGED <<tokensFile, configFile, rawTokens, tokens, config, isLoading, pc, log, transforms, hooks>>

\* processor.flattenTokenCategory(subtree) on a scalar category: 455-474
CallFlattenTokenCategory ==
    \E obj \in CategorySubtrees(tokensFile) :
        /\ call' = Called("flattenTokenCategory", obj,
                          flattenTokenCategory(obj, <<>>, rawTokens), 0)
        /\ UNCHANGED <<tokensFile, configFile, rawTokens, tokens, config, isLoading, pc, log, transforms, hooks>>

Next ==
    \/ \E forceReload \in BOOLEAN : LoadTokens(forceReload)
    \/ CallTransformTokens
    \/ CallResolveTokenValue
    \/ CallResolveAll
    \/ CallResolveAllAgain
    \/ CallFlattenTokenCategory

Spec == Init /\ [][Next]_vars

-----------------------------------------------------------------------------
(* Numbers in strings: parseFloat and the text of a number *)

\* The decimal digits of a natural number.
RECURSIVE NatToString(_)
NatToString(n) ==
    IF n < 10 THEN <<Digits[n + 1]>>
    ELSE NatToString(n \div 10) \o <<Digits[(n % 10) + 1]>>

RECURSIVE Pow10(_)
Pow10(k) == IF k = 0 THEN 1 ELSE 10 * Pow10(k - 1)

\* A number m / 10^k (m, k >= 0) with a sign; NaN is a value of its own.
Decimal(neg, m, k) == [neg |-> neg, m |-> m, k |-> k]
NaN == [nan |-> TRUE]

\* The digits of s from position i on: <<their value, their count, the
\* position after them>>.
RECURSIVE ScanDigits(_, _, _, _)
ScanDigits(s, i, m, n) ==
    IF i <= Len(s) /\ s[i] \in DigitSet
    THEN ScanDigits(s, i + 1, 10 * m + DigitVal(s[i]), n + 1)
    ELSE <<m, n, i>>

\* The number read once the digits after the "." are scanned: `frac` holds
\* the integer and fraction digits together and the count of the latter.
FractionOf(neg, int, frac) ==
    IF int[2] = 0 /\ frac[2] = 0 THEN NaN ELSE Decimal(neg, frac[1], frac[2])

\* The fraction after the integer part `int` of ScanDigits: a "." and the
\* digits that follow it.
ScanFraction(s, neg, int) ==
    IF int[3] <= Len(s) /\ s[int[3]] = "."
    THEN FractionOf(neg, int, ScanDigits(s, int[3] + 1, int[1], 0))
    ELSE IF int[2] = 0 THEN NaN ELSE Decimal(neg, int[1], 0)

\* parseFloat(s): leading blanks, a sign, digits, a fraction; what follows
\* the number is ignored, and a string that starts with no number is NaN.
\* (The strings of the model hold no exponent and no "Infinity".)
RECURSIVE SkipBlanks(_, _)
SkipBlanks(s, i) == IF i <= Len(s) /\ s[i] = " " THEN SkipBlanks(s, i + 1) ELSE i

ParseSigned(s, i) ==
    IF i <= Len(s) /\ s[i] \in {"-", "+"}
    THEN ScanFraction(s, s[i] = "-", ScanDigits(s, i + 1, 0, 0))
    ELSE ScanFraction(s, FALSE, ScanDigits(s, i, 0, 0))

parseFloat(s) == ParseSigned(s, SkipBlanks(s, 1))

\* The division taken to the base 10.
Div10(d) == IF d = NaN THEN NaN ELSE Decimal(d.neg, d.m, d.k + 1)

\* d / 16, exactly: m * 625 / 10^(k + 4)
Div16(d) == IF d = NaN THEN NaN ELSE Decimal(d.neg, d.m * 625, d.k + 4)

\* m / 10^k without the zeros that end the fraction.
RECURSIVE Shortest(_, _)
Shortest(m, k) == IF k > 0 /\ m % 10 = 0 THEN Shortest(m \div 10, k - 1) ELSE <<m, k>>

\* n written with at least `width` digits.
RECURSIVE Padded(_, _)
Padded(n, width) ==
    IF width <= 1 THEN NatToString(n)
    ELSE IF n < Pow10(width - 1) THEN <<"0">> \o Padded(n, width - 1)
    ELSE NatToString(n)

DecimalText(neg, mk) ==
    (IF neg /\ mk[1] # 0 THEN <<"-">> ELSE <<>>)
        \o NatToString(mk[1] \div Pow10(mk[2]))
        \o (IF mk[2] = 0 THEN <<>> ELSE <<".">> \o Padded(mk[1] % Pow10(mk[2]), mk[2]))

\* `${x}` for a number x between 1e-6 and 1e21 in size, or NaN.
NumberToString(d) ==
    IF d = NaN THEN <<"NaN">> ELSE DecimalText(d.neg, Shortest(d.m, d.k))

-----------------------------------------------------------------------------
(* TransformEngine.js: transforms, filters, platform token sets *)

\* s.includes(sub), s.endsWith(sub)
Includes(s, sub) ==
    \E i \in 1..(Len(s) - Len(sub) + 1) : SubSeq(s, i, i + Len(sub) - 1) = sub
EndsWithText(s, sub) ==
    Len(s) >= Len(sub) /\ SubSeq(s, Len(s) - Len(sub) + 1, Len(s)) = sub

\* path.join('.')
RECURSIVE JoinDot(_)
JoinDot(path) ==
    IF path = <<>> THEN <<>>
    ELSE IF Len(path) = 1 THEN path[1]
    ELSE JoinDot(SubSeq(path, 1, Len(path) - 1)) \o <<".">> \o path[Len(path)]

\* `${v}` inside a template literal
RECURSIVE TemplateText(_)
TemplateText(v) ==
    CASE v.t = "string" -> v.s
      [] v.t = "number" -> IF v.n < 0 THEN <<"-">> \o NatToString(-v.n) ELSE NatToString(v.n)
      [] v.t = "undefined" -> <<"undefined">>
      [] v.t = "null" -> <<"null">>
      [] v.t = "object" -> <<"[object Object]">>
      [] v.t = "array" ->
            IF v.a = <<>> THEN <<>>
            ELSE IF Len(v.a) = 1 THEN TemplateText(v.a[1])
            ELSE TemplateText(Arr(SubSeq(v.a, 1, Len(v.a) - 1)))
                    \o <<",">> \o TemplateText(v.a[Len(v.a)])
      [] OTHER -> <<"function">>

\* The token applyTransforms and applyFilters build from a leaf, 108-113 and
\* 160-165: { name, value, type, path }.
Token(path, leaf) ==
    [t |-> "token", name |-> JoinDot(path), value |-> GetProp(leaf, VALUE),
     type |-> GetProp(leaf, K("type")), path |-> path]

\* token.name.replace(/([a-z])([A-Z])/g, '$1-$2').toLowerCase() on the
\* camelCase words of the model's alphabet; its other words are lower case.
KebabWord(c) ==
    CASE c = "backgroundColor" -> <<"background", "-", "color">>
      [] c = "borderRadius" -> <<"border", "-", "radius">>
      [] c = "fontSize" -> <<"font", "-", "size">>
      [] OTHER -> <<c>>

RECURSIVE Kebab(_)
Kebab(s) == IF s = <<>> THEN <<>> ELSE KebabWord(s[1]) \o Kebab(Tail(s))

\* color/hex, 20-30: value.startsWith of a value that is no string raises.
ColorHex(token) ==
    IF token.type # Lit("color") THEN token
    ELSE IF IsStr(token.value) THEN token
    ELSE Throw("TypeError")

\* color/hexAlpha, 32-39: the matcher calls token.value.includes.
ColorHexAlpha(token) ==
    IF token.type # Lit("color") THEN token
    ELSE IF token.value.t \in {"string", "array"} THEN token
    ELSE Throw("TypeError")

\* size/rem, 42-53
SizeRem(token) ==
    IF token.type \notin {Lit("spacing"), Lit("sizing"), Lit("borderRadius")} THEN token
    ELSE IF IsStr(token.value) /\ EndsWithText(token.value.s, <<"p", "x">>)
    THEN [token EXCEPT !.value =
            Str(NumberToString(Div16(parseFloat(token.value.s))) \o <<"r", "e", "m">>)]
    ELSE token

\* typography/css/shorthand, 56-64: destructuring null raises.
TypographyShorthand(token) ==
    IF token.type # Lit("typography") THEN token
    ELSE IF token.value = Null THEN Throw("TypeError")
    ELSE [token EXCEPT !.value =
            Str(TemplateText(GetProp(token.value, K("fontWeight"))) \o <<" ">>
                \o TemplateText(GetProp(token.value, K("fontSize"))) \o <<"/">>
                \o TemplateText(GetProp(token.value, K("lineHeight"))) \o <<" ">>
                \o TemplateText(GetProp(token.value, K("fontFamily"))))]

\* name/kebab, 67-72: a name transform, without matcher
NameKebab(token) == [token EXCEPT !.name = Kebab(token.name)]

\* A built-in transform on a token: its matcher, then its transformer
BuiltIn(transformName, token) ==
    CASE transformName = Lit("color/hex") -> ColorHex(token)
      [] transformName = Lit("color/hexAlpha") -> ColorHexAlpha(token)
      [] transformName = Lit("size/rem") -> SizeRem(token)
      [] transformName = Lit("typography/css/shorthand") -> TypographyShorthand(token)
      [] transformName = Lit("name/kebab") -> NameKebab(token)
      [] OTHER -> token

\* The transforms a caller registers with registerTransform, 78-80.  Each has
\* a type, a matcher or none, and a transformer that appends one character:
\*   append/a  { type: 'value', transformer: t => `${t.value}a` }
\*   append/b  { type: 'value', transformer: t => `${t.value}b` }
\*   after/a   { type: 'value', matcher: t => String(t.value).endsWith('a'),
\*               transformer: t => `${t.value}c` }
\*   kebab/d   { type: 'value', matcher: t => t.name.includes('-'),
\*               transformer: t => `${t.value}d` }
Custom(type, matcher, suffix) ==
    [kind |-> "custom", type |-> type, matcher |-> matcher, suffix |-> suffix]
CustomTransforms ==
    {<<Lit("append/a"), Custom("value", "none", "a")>>,
     <<Lit("append/b"), Custom("value", "none", "b")>>,
     <<Lit("after/a"), Custom("value", "endsWith a", "c")>>,
     <<Lit("kebab/d"), Custom("value", "name includes -", "d")>>}

\* `!transform.matcher || transform.matcher(transformedToken)`: 119
Matches(transform, token) ==
    CASE transform.matcher = "none" -> TRUE
      [] transform.matcher = "endsWith a" ->
            TemplateText(token.value) # <<>>
                /\ TemplateText(token.value)[Len(TemplateText(token.value))] = "a"
      [] transform.matcher = "name includes -" ->
            \E i \in 1..Len(token.name) : token.name[i] = "-"

\* 120-124: a value transform writes the value, a name transform the name
Fire(transform, token) ==
    IF ~Matches(transform, token) THEN token
    ELSE IF transform.type = "value"
    THEN [token EXCEPT !.value = Str(TemplateText(token.value) \o <<transform.suffix>>)]
    ELSE IF transform.type = "name"
    THEN [token EXCEPT !.name = token.name \o <<transform.suffix>>]
    ELSE token

\* One turn of the loop over transformNames, 117-126: a name that is not
\* registered has no transform and is passed over.
ApplyTransform(transformName, token) ==
    IF transformName \notin DOMAIN transforms THEN token
    ELSE IF transforms[transformName].kind = "builtin"
    THEN BuiltIn(transforms[transformName].name, token)
    ELSE Fire(transforms[transformName], token)

\* The names of the list taken from its end.
RECURSIVE ApplyBackwards(_, _, _)
ApplyBackwards(transformNames, i, token) ==
    IF transformNames.t # "array" THEN Throw("TypeError")
    ELSE IF IsThrow(token) \/ i > Len(transformNames.a) THEN token
    ELSE ApplyBackwards(transformNames, i + 1,
            ApplyTransform(transformNames.a[Len(transformNames.a) + 1 - i], token))

\* for (const transformName of transformNames): iterating a value that is no
\* array (a function) raises.
RECURSIVE ApplyEach(_, _, _)
ApplyEach(transformNames, i, token) ==
    IF transformNames.t # "array" THEN Throw("TypeError")
    ELSE IF IsThrow(token) \/ i > Len(transformNames.a) THEN token
    ELSE ApplyEach(transformNames, i + 1, ApplyTransform(transformNames.a[i], token))

\* obj[key] = { ...value, value: transformedToken.value }, 129-132
Updated(leaf, token) ==
    IF IsThrow(token) THEN token ELSE Obj(SetEntry(leaf.e, VALUE, token.value))

\* processTokens(obj, path) of applyTransforms, 101-139
RECURSIVE TransformTokens(_, _, _), TransformEntries(_, _, _, _, _),
          TransformItems(_, _, _, _, _)
TransformChild(key, value, path, transformNames) ==
    IF IsTokenLeaf(value)
    THEN Updated(value, ApplyEach(transformNames, 1, Token(Append(path, key), value)))
    ELSE TransformTokens(value, Append(path, key), transformNames)

TransformTokens(obj, path, transformNames) ==
    CASE obj.t = "object" -> TransformEntries(obj.e, 1, Obj(<<>>), path, transformNames)
      [] obj.t = "array" -> TransformItems(obj.a, 1, Arr(<<>>), path, transformNames)
      [] OTHER -> obj

TransformEntries(e, i, acc, path, transformNames) ==
    IF IsThrow(acc) \/ i > Len(e) THEN acc
    ELSE TransformEntries(e, i + 1,
            Put(acc, e[i][1], TransformChild(e[i][1], e[i][2], path, transformNames)),
            path, transformNames)

TransformItems(a, i, acc, path, transformNames) ==
    IF IsThrow(acc) \/ i > Len(a) THEN acc
    ELSE TransformItems(a, i + 1,
            Push(acc, TransformChild(IndexKey(i - 1), a[i], path, transformNames)),
            path, transformNames)

\* transformNames.length of an array, or of the function an inherited name
\* stands for (Object.length is 1, toString.length is 0)
LengthOf(transformNames) ==
    IF transformNames.t = "array" THEN Len(transformNames.a)
    ELSE IF transformNames = Fn(<<"constructor">>) THEN 1
    ELSE 0

DefaultTransforms == Arr(<<Lit("color/hex"), Lit("size/rem"), Lit("name/kebab")>>)

\* The copy JSON.parse(JSON.stringify(tokens)) walked by processTokens
TransformCopy(transformedTokens, transformNames) ==
    IF IsThrow(transformedTokens) THEN transformedTokens
    ELSE TransformTokens(transformedTokens, <<>>, transformNames)

\* applyTransforms(tokens, transformNames = []), 92-143
applyTransforms(tokenTree, transformNames) ==
    TransformCopy(JsonClone(tokenTree),
                  IF LengthOf(transformNames) = 0 THEN DefaultTransforms ELSE transformNames)

\* platformTransforms of createPlatformTokens, 224-230
PlatformTransforms ==
    LET sizes == Arr(<<Lit("color/hex"), Lit("size/rem")>>)
    IN MkObj(<< <<K("web"), sizes>>, <<K("ios"), sizes>>, <<K("android"), sizes>>,
                <<K("react"), sizes>>, <<K("flutter"), sizes>> >>)

\* createPlatformTokens(tokens, platform), 223-234
createPlatformTokens(tokenTree, platform) ==
    applyTransforms(tokenTree, Or(GetProp(PlatformTransforms, platform), Arr(<<>>)))

\* The filters the engine holds after registerFilter(name, fn), 85-87, for
\* three predicates: one accepting every token, one rejecting every token and
\* one accepting the tokens of type color.
Filters == {Lit("all"), Lit("none"), Lit("colors")}

\* filter(token) for a registered filter
Accepts(filterName, token) ==
    CASE filterName = Lit("all") -> TRUE
      [] filterName = Lit("none") -> FALSE
      [] OTHER -> token.type = Lit("color")

\* shouldInclude with one accepting filter being enough.
RECURSIVE ShouldIncludeAny(_, _, _)
ShouldIncludeAny(filterNames, i, token) ==
    IF i > Len(filterNames) THEN FALSE
    ELSE IF filterNames[i] \in Filters /\ Accepts(filterNames[i], token) THEN TRUE
    ELSE ShouldIncludeAny(filterNames, i + 1, token)

\* The loop over filterNames, 167-174: shouldInclude turns false at the first
\* registered filter that rejects the token; a name without filter is passed
\* over.
RECURSIVE ShouldInclude(_, _, _)
ShouldInclude(filterNames, i, token) ==
    IF i > Len(filterNames) THEN TRUE
    ELSE IF filterNames[i] \in Filters /\ ~Accepts(filterNames[i], token) THEN FALSE
    ELSE ShouldInclude(filterNames, i + 1, token)

\* 176-187: from `result`, follow currentPath but for its last key, creating
\* the objects that are missing, and store the leaf under `key`.
RECURSIVE StoreAt(_, _, _, _, _)
Below(current, k) == IF Truthy(GetProp(current, k)) THEN GetProp(current, k) ELSE EmptyObject
StoreAt(current, currentPath, i, key, value) ==
    IF i > Len(currentPath) - 1 THEN Obj(SetEntry(current.e, key, value))
    ELSE Obj(SetEntry(current.e, currentPath[i],
                      StoreAt(Below(current, currentPath[i]), currentPath, i + 1, key, value)))

\* processTokens(obj, result, path) of applyFilters, 153-193, as the value of
\* `result` when it returns.
RECURSIVE FilterTokens(_, _, _, _), FilterEntries(_, _, _, _, _)
FilterEntry(key, value, result, path, filterNames) ==
    IF IsTokenLeaf(value)
    THEN IF ShouldInclude(filterNames, 1, Token(Append(path, key), value))
         THEN StoreAt(result, Append(path, key), 1, key, value)
         ELSE result
    ELSE Obj(SetEntry(result.e, key,
                      FilterTokens(value, Below(result, key), Append(path, key), filterNames)))

FilterTokens(obj, result, path, filterNames) ==
    IF TypeofObject(obj) /\ obj # Null
    THEN FilterEntries(ObjectEntries(obj), 1, result, path, filterNames)
    ELSE result

FilterEntries(e, i, result, path, filterNames) ==
    IF i > Len(e) THEN result
    ELSE FilterEntries(e, i + 1,
            FilterEntry(e[i][1], e[i][2], result, path, filterNames), path, filterNames)

\* applyFilters(tokens, filterNames = []), 148-197
applyFilters(tokenTree, filterNames) ==
    IF Len(filterNames.a) = 0 THEN tokenTree
    ELSE FilterTokens(tokenTree, EmptyObject, <<>>, filterNames.a)

-----------------------------------------------------------------------------
(* The transform engine on its own *)

\* Values of size tokens: a number of pixels written as an integer, with a
\* fraction, with a sign or without digits, and values that do not end in px.
Px(n) == Str(n \o <<"p", "x">>)
SizeValues ==
    {Px(<<"1", "6">>), Px(<<"2", "4">>), Px(<<"0", ".", "5">>), Px(<<"-", "8">>),
     Px(<<"1", "0", "0">>), Px(<<"9", "9", "9", "9">>), Px(<<"1", ".", "5">>), Px(<<"0">>),
     Px(<<>>), Px(<<"a", "u", "t", "o">>),
     Str(<<"1", "r", "e", "m">>), Str(<<"1", "6">>), Str(<<"p", "x", "1", "6">>),
     Lit("auto"), Num(16), Null}
LeafTypes == {"spacing", "sizing", "borderRadius", "dimension", "color", "typography"}
SizeLeaves ==
    {TypedLeaf(v, type) : v \in SizeValues, type \in LeafTypes}
        \cup {Leaf(v) : v \in SizeValues}
SizeTrees == {MkObj(<< <<K("spacing"), MkObj(<< <<K("sm"), l>> >>)>> >>) : l \in SizeLeaves}

\* Trees of several leaves: at the top level, nested one and two levels, in
\* an array, next to bare scalars, null and empty groups.
White == TypedLeaf(Lit("#fff"), "color")
Small == TypedLeaf(Px(<<"4">>), "spacing")
Body ==
    TypedLeaf(MkObj(<< <<K("fontWeight"), Lit("700")>>, <<K("fontSize"), Px(<<"1", "6">>)>>,
                       <<K("lineHeight"), Num(1)>>, <<K("fontFamily"), Lit("Arial")>> >>),
              "typography")
ShapeTrees ==
    {EmptyObject,
     MkObj(<< <<K("white"), White>>, <<K("sm"), Small>> >>),
     MkObj(<< <<K("colors"), MkObj(<< <<K("white"), White>> >>)>>,
              <<K("spacing"), MkObj(<< <<K("sm"), Small>> >>)>> >>),
     MkObj(<< <<K("colors"), MkObj(<< <<K("white"), White>>, <<K("sm"), Small>> >>)>> >>),
     MkObj(<< <<K("core"), MkObj(<< <<K("colors"), MkObj(<< <<K("white"), White>> >>)>> >>)>>,
              <<K("sm"), Small>> >>),
     MkObj(<< <<K("spacing"), MkObj(<< <<K("sm"), Px(<<"4">>)>> >>)>>, <<K("white"), White>> >>),
     MkObj(<< <<K("colors"), EmptyObject>>, <<K("white"), White>>, <<K("sm"), Null>> >>),
     MkObj(<< <<K("colors"), Arr(<<White, Small>>)>> >>),
     MkObj(<< <<K("backgroundColor"), White>>, <<K("text"), Body>> >>),
     MkObj(<< <<K("text"), TypedLeaf(Null, "typography")>> >>),
     MkObj(<< <<K("white"), TypedLeaf(Num(0), "color")>> >>),
     MkObj(<< <<K("white"), TypedLeaf(Str(<<"r", "g", "b", "a", "(", "0", ")">>), "color")>> >>)}

EngineTrees == SizeTrees \cup ShapeTrees

\* Lists of transform names: none, built-in ones, one that is not registered.
TransformLists ==
    {Arr(<<>>), Arr(<<Lit("size/rem")>>), Arr(<<Lit("color/hex"), Lit("size/rem")>>),
     Arr(<<Lit("size/rem"), Lit("size/rem")>>), Arr(<<Lit("name/kebab")>>),
     Arr(<<Lit("color/hexAlpha")>>), Arr(<<Lit("typography/css/shorthand")>>),
     Arr(<<Lit("size/px")>>),
     Arr(<<Lit("append/a"), Lit("append/b")>>), Arr(<<Lit("append/b"), Lit("append/a")>>),
     Arr(<<Lit("after/a"), Lit("append/a")>>), Arr(<<Lit("append/a"), Lit("after/a")>>),
     Arr(<<Lit("name/kebab"), Lit("kebab/d")>>), Arr(<<Lit("kebab/d"), Lit("name/kebab")>>),
     Arr(<<Lit("append/a"), Lit("size/rem")>>), Arr(<<Lit("size/rem"), Lit("append/a")>>)}

\* Most transforms a caller registers on one engine
MaxRegistered == 2

\* Platform names: the five of the table, two it does not hold, and a name
\* every object inherits.
KnownPlatforms == {K("web"), K("ios"), K("android"), K("react"), K("flutter")}
Platforms == KnownPlatforms \cup {K("desktop"), <<>>, K("constructor")}

\* Lists of up to MaxFilters filter names, registered or not ("sizes").
MaxFilters == 3
FilterNames == Filters \cup {Lit("sizes")}
FilterLists == {Arr(l) : l \in UNION {[1..n -> FilterNames] : n \in 0..MaxFilters}}

Invoked(op, arg, names, ret) ==
    [op |-> op, arg |-> arg, names |-> names, ret |-> ret, pass |-> 0]

\* constructor, 6-13: an engine with its built-in transforms, handed a tree
EngineInit ==
    /\ tokensFile \in EngineTrees
    /\ configFile = TemplateConfig
    /\ config = Null
    /\ rawTokens = Undefined
    /\ tokens = Null
    /\ isLoading = FALSE
    /\ call = Invoked("new", Undefined, Undefined, Undefined)
    /\ pc = [c \in Callers |-> Idle]
    /\ log = <<>>
    /\ transforms = registerBuiltInTransforms
    /\ hooks = NoHooks

\* registerTransform(name, transform): 78-80
RegisterTransform ==
    \E transform \in CustomTransforms :
        /\ call.op = "new"
        /\ transform[1] \notin DOMAIN transforms
        /\ Cardinality(DOMAIN transforms) < Cardinality(BuiltInTransforms) + MaxRegistered
        /\ transforms' = [name \in DOMAIN transforms \cup {transform[1]} |->
                            IF name = transform[1] THEN transform[2] ELSE transforms[name]]
        /\ UNCHANGED <<tokensFile, configFile, rawTokens, tokens, config, isLoading, call,
                       pc, log, hooks>>

\* The engine keeps nothing else from one call to the next, so each run makes
\* its registrations and then one call.

\* engine.applyTransforms(tree, transformNames): 92-143
CallApplyTransforms ==
    \E transformNames \in TransformLists :
        /\ call.op = "new"
        /\ call' = Invoked("applyTransforms", tokensFile, transformNames,
                           applyTransforms(tokensFile, transformNames))
        /\ UNCHANGED <<tokensFile, configFile, rawTokens, tokens, config, isLoading, pc, log, transforms, hooks>>

\* engine.createPlatformTokens(tree, platform): 223-234
CallCreatePlatformTokens ==
    \E platform \in Platforms :
        /\ call.op = "new"
        /\ call' = Invoked("createPlatformTokens", tokensFile, platform,
                           createPlatformTokens(tokensFile, platform))
        /\ UNCHANGED <<tokensFile, configFile, rawTokens, tokens, config, isLoading, pc, log, transforms, hooks>>

\* engine.applyFilters(tree, filterNames): 148-197
CallApplyFilters ==
    \E filterNames \in FilterLists :
        /\ call.op = "new"
        /\ call' = Invoked("applyFilters", tokensFile, filterNames,
                           applyFilters(tokensFile, filterNames))
        /\ UNCHANGED <<tokensFile, configFile, rawTokens, tokens, config, isLoading, pc, log, transforms, hooks>>

EngineNext ==
    \/ RegisterTransform
    \/ CallApplyTransforms
    \/ CallCreatePlatformTokens
    \/ CallApplyFilters

EngineSpec == EngineInit /\ [][EngineNext]_vars

-----------------------------------------------------------------------------
(* TokenValidator.js: validate and its checks *)

\* A diagnostic: the fixed text of the message and the keys written into it.
\* The token values some messages quote are left out.
Msg(text, at) == [text |-> text, at |-> at]

\* The errors and warnings pushed by a check.
Pushed(e, w) == [t |-> "diagnostics", e |-> e, w |-> w]

RECURSIVE Concat(_)
Concat(ss) == IF ss = <<>> THEN <<>> ELSE Head(ss) \o Concat(Tail(ss))

\* v[k], also of a string, whose index keys name its characters
Index(v, k) ==
    IF v.t = "string"
    THEN IF IsArrayIndex(k) /\ IndexVal(k) < Len(v.s) THEN Str(<<v.s[IndexVal(k) + 1]>>)
         ELSE Undefined
    ELSE GetProp(v, k)

\* Character classes of the regular expressions
LowerCase ==
    {"a", "b", "c", "d", "e", "f", "g", "h", "i", "j", "k", "l", "m",
     "n", "o", "p", "q", "r", "s", "t", "u", "v", "w", "x", "y", "z"}
UpperCase ==
    {"A", "B", "C", "D", "E", "F", "G", "H", "I", "J", "K", "L", "M",
     "N", "O", "P", "Q", "R", "S", "T", "U", "V", "W", "X", "Y", "Z"}
HexDigits == DigitSet \cup {"a", "b", "c", "d", "e", "f", "A", "B", "C", "D", "E", "F"}
AllIn(s, from, class) == \A i \in from..Len(s) : s[i] \in class

\* /^<name>a?\([<class>]+\)$/i for a name of three letters
IsFunctional(s, name, class) ==
    \E open \in {4, 5} :
        /\ Len(s) >= open + 2
        /\ \A i \in 1..3 : s[i] \in name[i]
        /\ open = 5 => s[4] \in {"a", "A"}
        /\ s[open] = "("
        /\ s[Len(s)] = ")"
        /\ AllIn(SubSeq(s, 1, Len(s) - 1), open + 1, class)

\* isValidColor: 306-325
isValidColor(value) ==
    /\ IsStr(value)
    /\ \/ Len(value.s) \in {4, 7} /\ value.s[1] = "#" /\ AllIn(value.s, 2, HexDigits)
       \/ IsFunctional(value.s, <<{"r", "R"}, {"g", "G"}, {"b", "B"}>>,
                       DigitSet \cup {" ", ",", ".", "/"})
       \/ IsFunctional(value.s, <<{"h", "H"}, {"s", "S"}, {"l", "L"}>>,
                       DigitSet \cup {" ", ",", "%", ".", "/"})
       \/ value.s # <<>> /\ AllIn(value.s, 1, LowerCase \cup UpperCase)
       \/ StartsWith(value.s, "{") /\ EndsWith(value.s, "}")

\* isValidSpacing: 327-340
isValidSpacing(value) ==
    /\ IsStr(value)
    /\ \/ \E n \in 1..Len(value.s) :
            /\ \A i \in 1..n : value.s[i] \in DigitSet \cup {"."}
            /\ AllIn(value.s, n + 1, LowerCase \cup UpperCase \cup {"%"})
       \/ StartsWith(value.s, "{") /\ EndsWith(value.s, "}")

\* isValidSize: 342-344
isValidSize(value) == isValidSpacing(value)

\* isNumericShade: 346-348
isNumericShade(shade) == shade # <<>> /\ AllIn(shade, 1, DigitSet)

\* getCorrectCategory: 295-304
CommonTypos == <<K("colour"), K("color"), K("spacings"), K("typo"), K("fonts")>>
getCorrectCategory(typo) ==
    CASE typo \in {K("colour"), K("color")} -> K("colors")
      [] typo = K("spacings") -> K("spacing")
      [] typo \in {K("typo"), K("fonts")} -> K("typography")
      [] OTHER -> typo

\* validateStructure: 69-86
validateStructure(tk) ==
    IF ~Truthy(tk) \/ ~TypeofObject(tk)
    THEN Pushed(<<Msg("Tokens must be an object", <<>>)>>, <<>>)
    ELSE Pushed(IF ~Truthy(Index(tk, K("colors")))
                THEN <<Msg("Missing colors category - this is required", <<>>)>>
                ELSE <<>>,
                Concat([i \in 1..Len(CommonTypos) |->
                    IF Truthy(Index(tk, CommonTypos[i]))
                        /\ ~Truthy(Index(tk, getCorrectCategory(CommonTypos[i])))
                    THEN <<Msg("Found - did you mean",
                               <<CommonTypos[i], getCorrectCategory(CommonTypos[i])>>)>>
                    ELSE <<>>]))

\* The test without its second half.
MissingOnly(x) == ~Truthy(x)

\* !x || Object.keys(x).length === 0
MissingOrEmpty(x) == ~Truthy(x) \/ Len(ObjectEntries(x)) = 0

\* this.config?.tokens?.validation?.<list> || <default>
ValidationList(cfg, list, default) ==
    Or(OptProp(OptProp(OptProp(cfg, K("tokens")), K("validation")), K(list)), default)

\* The loop of validateRequiredCategories over `required`, 94-98
RequiredErrors(tk, required) ==
    Concat([i \in 1..Len(required) |->
        IF MissingOrEmpty(Index(tk, required[i].s))
        THEN <<Msg("Missing required token category", <<required[i].s>>)>>
        ELSE <<>>])

\* validateRequiredCategories: 91-109.  tokens[category] and tokens.colors
\* of null or undefined raise.
validateRequiredCategories(tk, cfg) ==
    IF Nullish(tk) THEN Throw("TypeError")
    ELSE Pushed(
        RequiredErrors(tk, ValidationList(cfg, "required", Arr(<<Lit("colors")>>)).a)
        \o (IF Truthy(Index(tk, K("colors")))
                /\ MissingOrEmpty(Index(Index(tk, K("colors")), K("primary")))
            THEN <<Msg("Missing required color category", <<K("colors"), K("primary")>>)>>
            ELSE <<>>),
        <<>>)

\* The loop of validateOptionalCategories over `optional`, 117-121
OptionalWarnings(tk, optional) ==
    IF optional # <<>> /\ Nullish(tk) THEN Throw("TypeError")
    ELSE Pushed(<<>>,
        Concat([i \in 1..Len(optional) |->
            IF ~Truthy(Index(tk, optional[i].s))
            THEN <<Msg("Optional token category not found", <<optional[i].s>>)>>
            ELSE <<>>]))

\* validateOptionalCategories: 114-122
validateOptionalCategories(tk, cfg) ==
    OptionalWarnings(tk,
        ValidationList(cfg, "optional", Arr(<<Lit("spacing"), Lit("typography")>>)).a)

\* parseInt(shade) of a numeric shade
ShadeNum(shade) == ScanDigits(shade, 1, 0, 0)[1]

CommonShades ==
    << <<"1", "0", "0">>, <<"2", "0", "0">>, <<"3", "0", "0">>, <<"4", "0", "0">>,
       <<"5", "0", "0">>, <<"6", "0", "0">>, <<"7", "0", "0">>, <<"8", "0", "0">>,
       <<"9", "0", "0">> >>

\* The keys of a list that the object does not hold a truthy value for
Lacking(obj, keys) == SelectSeq(keys, LAMBDA k : ~Truthy(Index(obj, k)))

\* One turn of the loop over tokens.colors, 130-159
ColorCategory(category, shades, e) ==
    IF ~Truthy(shades) \/ ~TypeofObject(shades)
    THEN Pushed(<<Msg("Invalid color category structure", <<K("colors"), category>>)>>, <<>>)
    ELSE Pushed(
        Concat([i \in 1..Len(e) |->
            IF ~isValidColor(e[i][2])
            THEN <<Msg("Invalid color value", <<K("colors"), category, e[i][1]>>)>>
            ELSE <<>>]),
        Concat([i \in 1..Len(e) |->
            IF isNumericShade(e[i][1])
                /\ (ShadeNum(e[i][1]) < 50 \/ ShadeNum(e[i][1]) > 950
                        \/ ShadeNum(e[i][1]) % 50 # 0)
            THEN <<Msg("Unusual shade value", <<K("colors"), category, e[i][1]>>)>>
            ELSE <<>>])
        \o (IF (\E i \in 1..Len(e) : isNumericShade(e[i][1]))
                /\ Lacking(shades, CommonShades) # <<>>
            THEN <<Msg("Consider adding common shades",
                       <<K("colors"), category>> \o Lacking(shades, CommonShades))>>
            ELSE <<>>))

\* The diagnostics of a list of checks, in their order
Gathered(ds) ==
    Pushed(Concat([i \in 1..Len(ds) |-> ds[i].e]), Concat([i \in 1..Len(ds) |-> ds[i].w]))

ColorCategories(e) ==
    Gathered([i \in 1..Len(e) |-> ColorCategory(e[i][1], e[i][2], ObjectEntries(e[i][2]))])

\* validateColors: 127-160
validateColors(tk) ==
    IF Nullish(tk) THEN Throw("TypeError")
    ELSE IF ~Truthy(Index(tk, K("colors"))) THEN Pushed(<<>>, <<>>)
    ELSE ColorCategories(ObjectEntries(Index(tk, K("colors"))))

RequiredSpacing == <<K("0"), K("1"), K("2"), K("4"), K("8"), <<"1", "6">> >>

SpacingValues(spacing, e) ==
    Pushed(Concat([i \in 1..Len(e) |->
                IF ~isValidSpacing(e[i][2])
                THEN <<Msg("Invalid spacing value", <<K("spacing"), e[i][1]>>)>>
                ELSE <<>>]),
           IF Lacking(spacing, RequiredSpacing) # <<>>
           THEN <<Msg("Missing common spacing values", Lacking(spacing, RequiredSpacing))>>
           ELSE <<>>)

\* validateSpacing: 165-180
validateSpacing(tk) ==
    IF Nullish(tk) THEN Throw("TypeError")
    ELSE IF ~Truthy(Index(tk, K("spacing"))) THEN Pushed(<<>>, <<>>)
    ELSE SpacingValues(Index(tk, K("spacing")), ObjectEntries(Index(tk, K("spacing"))))

\* typeof value !== 'string' || value.trim().length === 0
Blank(value) == ~IsStr(value) \/ AllIn(value.s, 1, {" "})

FontFamilies(fontFamily, e) ==
    IF ~Truthy(fontFamily) THEN <<>>
    ELSE (IF ~Truthy(Index(fontFamily, K("sans")))
          THEN <<Msg("Missing sans-serif font family (typography.fontFamily.sans)", <<>>)>>
          ELSE <<>>)
         \o Concat([i \in 1..Len(e) |->
                IF Blank(e[i][2])
                THEN <<Msg("Invalid font family",
                           <<K("typography"), K("fontFamily"), e[i][1]>>)>>
                ELSE <<>>])

FontSizes(fontSize, e) ==
    IF ~Truthy(fontSize) THEN <<>>
    ELSE Concat([i \in 1..Len(e) |->
                IF ~isValidSize(e[i][2])
                THEN <<Msg("Invalid font size", <<K("typography"), K("fontSize"), e[i][1]>>)>>
                ELSE <<>>])

Typography(fontFamily, fontSize) ==
    Pushed(FontFamilies(fontFamily, ObjectEntries(fontFamily))
                \o FontSizes(fontSize, ObjectEntries(fontSize)),
           IF ~Truthy(fontFamily)
           THEN <<Msg("Missing typography category", <<K("typography"), K("fontFamily")>>)>>
           ELSE <<>>)

\* validateTypography: 185-217
validateTypography(tk) ==
    IF Nullish(tk) THEN Throw("TypeError")
    ELSE IF ~Truthy(Index(tk, K("typography"))) THEN Pushed(<<>>, <<>>)
    ELSE Typography(Index(Index(tk, K("typography")), K("fontFamily")),
                    Index(Index(tk, K("typography")), K("fontSize")))

\* getAllTokenKeys: 380-396, of a root that is not null or undefined
RECURSIVE extractKeys(_)
extractKeys(obj) ==
    Concat([i \in 1..Len(ObjectEntries(obj)) |->
        <<ObjectEntries(obj)[i][1]>>
            \o (IF Truthy(ObjectEntries(obj)[i][2]) /\ TypeofObject(ObjectEntries(obj)[i][2])
                    /\ ~Truthy(Index(ObjectEntries(obj)[i][2], VALUE))
                THEN extractKeys(ObjectEntries(obj)[i][2])
                ELSE <<>>)])

\* The words of the model's alphabet that hold a small letter followed by a
\* capital one.
CamelWords ==
    {"fontFamily", "fontSize", "fontWeight", "lineHeight", "borderRadius",
     "backgroundColor", "zIndex"}
IsCamelCase(key) ==
    \/ \E i \in 1..Len(key) : key[i] \in CamelWords
    \/ \E i \in 1..(Len(key) - 1) : key[i] \in LowerCase /\ key[i + 1] \in UpperCase
Holding(key, c) == \E i \in 1..Len(key) : key[i] = c

\* validateNamingConsistency: 236-248
NamingConventions(allKeys) ==
    Cardinality({c \in {"kebab", "camel", "snake"} :
        \E i \in 1..Len(allKeys) :
            \/ c = "kebab" /\ Holding(allKeys[i], "-")
            \/ c = "camel" /\ IsCamelCase(allKeys[i])
            \/ c = "snake" /\ Holding(allKeys[i], "_")})
validateNamingConsistency(tk) ==
    IF NamingConventions(extractKeys(tk)) > 1
    THEN <<Msg("Mixed naming conventions detected", <<>>)>>
    ELSE <<>>

\* getAllTokenValues: 398-417, each value with its dotted path
RECURSIVE extractValues(_, _)
extractValues(obj, path) ==
    Concat([i \in 1..Len(ObjectEntries(obj)) |->
        IF IsTokenLeaf(ObjectEntries(obj)[i][2])
        THEN << <<JoinDot(Append(path, ObjectEntries(obj)[i][1])),
                  Index(ObjectEntries(obj)[i][2], VALUE)>> >>
        ELSE IF Truthy(ObjectEntries(obj)[i][2]) /\ TypeofObject(ObjectEntries(obj)[i][2])
        THEN extractValues(ObjectEntries(obj)[i][2], Append(path, ObjectEntries(obj)[i][1]))
        ELSE << <<JoinDot(Append(path, ObjectEntries(obj)[i][1])), ObjectEntries(obj)[i][2]>> >>])

\* findDuplicateValues: 419-438.  The Map holds one entry per value, objects
\* and arrays of a parsed document each being a value of their own.
Sharing(values, value) ==
    Concat([j \in 1..Len(values) |-> IF values[j][2] = value THEN <<values[j][1]>> ELSE <<>>])
findDuplicateValues(values) ==
    Concat([i \in 1..Len(values) |->
        IF values[i][2].t \notin {"object", "array"}
            /\ Len(Sharing(values, values[i][2])) > 1
            /\ \A j \in 1..(i - 1) : values[j][2] # values[i][2]
        THEN <<Msg("Duplicate value found in", Sharing(values, values[i][2]))>>
        ELSE <<>>])

\* validateValueConsistency: 253-263
validateValueConsistency(tk) == findDuplicateValues(extractValues(tk, <<>>))

\* parseSpacingValue: 440-445, as the list of the numbers that are not null
parseSpacingValue(value) ==
    IF IsStr(value) /\ value.s # <<>> /\ value.s[1] \in DigitSet \cup {"."}
    THEN <<parseFloat(value.s)>>
    ELSE <<>>

\* The numbers as integers of one scale, in ascending order
Scaled10(ds) ==
    SortSeq([i \in 1..Len(ds) |->
                ds[i].m * Pow10((CHOOSE k \in {ds[j].k : j \in 1..Len(ds)} :
                                    \A j \in 1..Len(ds) : ds[j].k <= k) - ds[i].k)],
            LAMBDA a, b : a < b)

RECURSIVE Product(_, _)
Product(vs, n) == IF n = 0 THEN 1 ELSE vs[n] * Product(vs, n - 1)
RECURSIVE Sum(_, _)
Sum(vs, n) == IF n = 0 THEN 0 ELSE vs[n] + Sum(vs, n - 1)

\* 276-287 for more than two numbers vs, none of them NaN: the ratios
\* vs[i + 1] / vs[i], their average, and whether more than 0.3 of them lie
\* further than 0.5 from it.  A ratio by zero is Infinity, 0 / 0 is NaN, and
\* no comparison with NaN holds.
Inconsistent(vs, n) ==
    IF vs[2] = 0 THEN FALSE
    ELSE IF vs[1] = 0 THEN 10 * (n - 1) > 3 * n
    ELSE LET d == Product(vs, n)
             ratios == [i \in 1..n |-> (vs[i + 1] * d) \div vs[i]]
             total == Sum(ratios, n)
             far(i) == IF ratios[i] * n >= total
                       THEN 2 * (ratios[i] * n - total) > n * d
                       ELSE 2 * (total - ratios[i] * n) > n * d
         IN 10 * Cardinality({i \in 1..n : far(i)}) > 3 * n

SpacingScale(spacingValues) ==
    IF Len(spacingValues) > 2 /\ Inconsistent(Scaled10(spacingValues), Len(spacingValues) - 1)
    THEN <<Msg("Spacing scale appears inconsistent", <<>>)>>
    ELSE <<>>

\* validateScaleConsistency: 268-290
validateScaleConsistency(tk) ==
    IF ~Truthy(Index(tk, K("spacing"))) THEN <<>>
    ELSE SpacingScale(Concat([i \in 1..Len(ObjectEntries(Index(tk, K("spacing")))) |->
                parseSpacingValue(ObjectEntries(Index(tk, K("spacing")))[i][2])]))

\* validateConsistency: 222-231.  Object.keys of null or undefined raises.
validateConsistency(tk) ==
    IF Nullish(tk) THEN Throw("TypeError")
    ELSE Pushed(<<>>, validateNamingConsistency(tk) \o validateValueConsistency(tk)
                        \o validateScaleConsistency(tk))

\* countCategories: 350-352
countCategories(tk) ==
    Cardinality({i \in 1..Len(ObjectEntries(tk)) : TypeofObject(ObjectEntries(tk)[i][2])})

\* countTokens: 354-378
RECURSIVE countInCategory(_)
countInCategory(obj) ==
    Sum([i \in 1..Len(ObjectEntries(obj)) |->
            IF Truthy(ObjectEntries(obj)[i][2]) /\ TypeofObject(ObjectEntries(obj)[i][2])
                /\ Index(ObjectEntries(obj)[i][2], VALUE) = Undefined
            THEN countInCategory(ObjectEntries(obj)[i][2])
            ELSE 1],
        Len(ObjectEntries(obj)))
countTokens(tk) ==
    Sum([i \in 1..Len(ObjectEntries(tk)) |->
            IF Truthy(ObjectEntries(tk)[i][2]) /\ TypeofObject(ObjectEntries(tk)[i][2])
            THEN countInCategory(ObjectEntries(tk)[i][2])
            ELSE 0],
        Len(ObjectEntries(tk)))

\* The checks one after another as far as none raises: 33-51
RECURSIVE Checked(_, _, _)
Checked(checks, i, acc) ==
    IF IsThrow(acc) \/ i > Len(checks) THEN acc
    ELSE Checked(checks, i + 1,
                 IF IsThrow(checks[i]) THEN checks[i]
                 ELSE Pushed(acc.e \o checks[i].e, acc.w \o checks[i].w))

\* The object validate returns: 53-63.  Object.keys of null or undefined in
\* countCategories raises.
Diagnostics(found, tk) ==
    IF IsThrow(found) THEN found
    ELSE IF Nullish(tk) THEN Throw("TypeError")
    ELSE [t |-> "diagnostics", isValid |-> Len(found.e) = 0,
          errors |-> found.e, warnings |-> found.w,
          summary |-> [totalCategories |-> countCategories(tk),
                       validatedTokens |-> countTokens(tk),
                       errorCount |-> Len(found.e), warningCount |-> Len(found.w)]]

\* validate(tokens) of a validator whose init loaded `config`: 26-64
validate(tk, cfg) ==
    Diagnostics(Checked(<<validateStructure(tk), validateRequiredCategories(tk, cfg),
                          validateOptionalCategories(tk, cfg), validateColors(tk),
                          validateSpacing(tk), validateTypography(tk),
                          validateConsistency(tk)>>, 1, Pushed(<<>>, <<>>)),
                tk)

-----------------------------------------------------------------------------
(* The validator on its own *)

Fff == Str(<<"#", "f", "f", "f">>)
Shade(key, v) == MkObj(<< <<key, v>> >>)
FourPx == Str(<<"4", "p", "x">>)
Arial == Str(<<"A", "r", "i", "a", "l">>)

\* What a document holds under colors: nothing, null, no category, primary
\* empty, well-formed, as Token Studio leaves, with a shade that is no
\* color, with unusual shades, another category only, a primary that is no
\* object.
ValidatorColors ==
    {Undefined, Null, EmptyObject,
     Shade(K("primary"), EmptyObject),
     Shade(K("primary"), Shade(<<"5", "0", "0">>, Fff)),
     Shade(K("primary"), Shade(<<"5", "0", "0">>, TypedLeaf(Fff, "color"))),
     Shade(K("primary"), Shade(<<"5", "0", "0">>, Str(<<"#", "f", "f", "f", "f">>))),
     Shade(K("primary"),
           MkObj(<< <<<<"2", "5">>, Str(<<"r", "g", "b", "(", "0", ",", "0", ",", "0", ")">>)>>,
                    <<K("base"), Str(<<"r", "e", "d">>)>> >>)),
     Shade(K("secondary"), Shade(<<"5", "0", "0">>, Fff)),
     Shade(K("primary"), Str(<<"r", "e", "d">>))}

ValidatorSpacing ==
    {Undefined,
     MkObj(<< <<K("1"), FourPx>>, <<K("2"), Str(<<"8", "p", "x">>)>> >>),
     Shade(K("sm"), TypedLeaf(FourPx, "spacing")),
     MkObj(<< <<K("0"), Str(<<"0">>)>>, <<K("1"), FourPx>>, <<K("2"), Str(<<"8", "p", "x">>)>>,
              <<K("4"), Str(<<"1", "6", "p", "x">>)>>, <<K("8"), Str(<<"3", "2", "p", "x">>)>>,
              <<<<"1", "6">>, Str(<<"6", "4", "p", "x">>)>> >>),
     MkObj(<< <<K("1"), Str(<<"1", "p", "x">>)>>, <<K("2"), Str(<<"1", ".", "5", "p", "x">>)>>,
              <<K("4"), Str(<<"6", "4", "p", "x">>)>>, <<K("sm"), Str(<<"-", "1", "p", "x">>)>> >>)}

ValidatorTypography ==
    {Undefined,
     Shade(K("fontFamily"), Shade(K("sans"), Arial)),
     Shade(K("fontFamily"), Shade(K("serif"), Str(<<" ">>))),
     Shade(K("fontSize"), Shade(K("base"), Str(<<"1", "r", "e", "m">>)))}

\* The three-tier structure of TOKEN_STUDIO_STRUCTURE.md under core
TokenStudioCore ==
    MkObj(<< <<K("colors"),
               Shade(K("primary"), Shade(<<"5", "0", "0">>, TypedLeaf(Fff, "color")))>>,
             <<K("spacing"), Shade(K("sm"), TypedLeaf(FourPx, "spacing"))>>,
             <<K("typography"),
               Shade(K("fontFamily"), Shade(K("sans"), TypedLeaf(Arial, "fontFamilies")))>> >>)

ValidatorTrees ==
    {Present(<< <<K("core"), core>>, <<K("colors"), colors>>,
                <<K("spacing"), spacing>>, <<K("typography"), typography>> >>) :
        core \in {Undefined, TokenStudioCore}, colors \in ValidatorColors,
        spacing \in ValidatorSpacing, typography \in ValidatorTypography}

\* Roots that are no object, and an array
ValidatorRoots ==
    ValidatorTrees \cup {Null, Undefined, Str(<<"a", "b">>), Str(<<>>), Num(5), Num(0),
                         Arr(<<>>)}

\* A validator before init, handed a root; loadConfig resolves to configFile
ValidatorInit ==
    /\ tokensFile \in ValidatorRoots
    /\ configFile \in Configs
    /\ config = Null
    /\ rawTokens = Undefined
    /\ tokens = Null
    /\ isLoading = FALSE
    /\ call = Called("new", Undefined, Undefined, 0)
    /\ pc = [c \in Callers |-> Idle]
    /\ log = <<>>
    /\ transforms = registerBuiltInTransforms
    /\ hooks = NoHooks

\* validator.validate(tokens): 26-64
CallValidate ==
    /\ call' = Called("validate", tokensFile, validate(tokensFile, configFile), 0)
    /\ UNCHANGED <<tokensFile, configFile, rawTokens, tokens, config, isLoading, pc, log, transforms, hooks>>

ValidatorNext == CallValidate

ValidatorSpec == ValidatorInit /\ [][ValidatorNext]_vars

-----------------------------------------------------------------------------
(* TokenValidator.js: validate calls that overlap, await by await *)

\* The trees handed to the overlapping calls: the three-tier structure, and
\* a flat tree with colors
InitTrees ==
    {Present(<< <<K("core"), TokenStudioCore>> >>),
     Present(<< <<K("colors"), Shade(K("primary"), Shade(<<"5", "0", "0">>, Fff))>> >>)}

\* The configurations the configuration file may hold meanwhile
InitConfigs == {TemplateConfig, DocumentedConfig}

\* A call of validate that has returned: its result, and the this.config its
\* checks read (validateRequiredCategories, validateOptionalCategories)
Returned(ret, against) == [at |-> "done", ret |-> ret, against |-> against]

\* One TokenValidator after its constructor, 9-12; log holds the invocations
\* of loadConfig
InitInit ==
    /\ tokensFile \in InitTrees
    /\ configFile \in InitConfigs
    /\ config = Null
    /\ rawTokens = Undefined
    /\ tokens = Null
    /\ isLoading = FALSE
    /\ call = Called("new", Undefined, Undefined, 0)
    /\ pc = [c \in Callers |-> Idle]
    /\ log = <<>>
    /\ transforms = registerBuiltInTransforms
    /\ hooks = NoHooks

\* validate(tokens) up to its first await, 26-27 and 17-19: init() finds
\* this.config unset and invokes loadConfig, or returns this.config at once
ValidateCall(c) ==
    /\ pc[c] = Idle
    /\ IF ~Truthy(config)
       THEN /\ log' = Append(log, "loadConfig")
            /\ pc' = Goto(c, [at |-> "loadConfig"])
       ELSE /\ pc' = Goto(c, [at |-> "init"])
            /\ UNCHANGED log
    /\ UNCHANGED <<tokensFile, configFile, rawTokens, tokens, config, isLoading, call,
                   transforms, hooks>>

\* `await loadConfig(...)` settles, 19-21: the configuration read is stored,
\* or loading it failed and validate rejects
ValidateLoadConfig(c) ==
    /\ pc[c].at = "loadConfig"
    /\ \E ok \in BOOLEAN :
        IF ok
        THEN /\ config' = configFile
             /\ pc' = Goto(c, [at |-> "init"])
        ELSE /\ pc' = Goto(c, Returned(Failed("loadConfig"), Undefined))
             /\ UNCHANGED config
    /\ UNCHANGED <<tokensFile, configFile, rawTokens, tokens, isLoading, call, log,
                   transforms, hooks>>

\* `await this.init()` settles and the checks run against this.config: 27-64
ValidateChecks(c) ==
    /\ pc[c].at = "init"
    /\ pc' = Goto(c, Returned(validate(tokensFile, config), config))
    /\ UNCHANGED <<tokensFile, configFile, rawTokens, tokens, config, isLoading, call, log,
                   transforms, hooks>>

\* The configuration file is rewritten
ConfigChanged ==
    /\ \E other \in InitConfigs \ {configFile} : configFile' = other
    /\ UNCHANGED <<tokensFile, rawTokens, tokens, config, isLoading, call, pc, log,
                   transforms, hooks>>

InitNext ==
    \/ \E c \in Callers : ValidateCall(c)
    \/ \E c \in Callers : ValidateLoadConfig(c)
    \/ \E c \in Callers : ValidateChecks(c)
    \/ ConfigChanged

InitSpec == InitInit /\ [][InitNext]_vars

-----------------------------------------------------------------------------
(* The validate command of the CLI: TokenValidator.js 452-513 *)

\* The configuration file when loadConfig cannot load it
Unloadable == [t |-> "unloadable"]

\* What the command finds: a tokens file with a tree, and a configuration
\* whose tokens.input names that file, or none that loads
CliConfigs == InitConfigs \cup {Unloadable}

\* result.<name> of what validator.validate returned: a property the result
\* object does not have reads as undefined
Field(result, name) == IF name \in DOMAIN result THEN result[name] ELSE Undefined

\* The `if (result.isValid)` branch, 467-488: the spinner succeeds, then
\* result.tokenCount and result.categoriesFound.length are printed; reading
\* .length of undefined throws TypeError, which the catch at 508-512 reports
\* before process.exit(1)
Passed(result) ==
    <<"Token validation passed!">>
    \o (IF Nullish(Field(result, "categoriesFound"))
        THEN <<"Validation failed", "TypeError", "process.exit(1)">>
        ELSE <<"Validation Summary">>)

\* The else branch, 490-506
Refused(result) == <<"Token validation failed", "Validation Errors", "process.exit(1)">>

\* What the command prints once validator.validate(config.tokens.input) has
\* settled, 465-512
Outcome30(result) ==
    IF IsThrow(result) THEN <<"Validation failed", result.name, "process.exit(1)">>
    ELSE IF result.isValid THEN Passed(result)
    ELSE Refused(result)

\* validate(options), 452-513: loadConfig, then a TokenValidator is handed
\* config.tokens.input, the path of the tokens file
Command(loaded) ==
    IF loaded = Unloadable THEN <<"Validation failed", "Error", "process.exit(1)">>
    ELSE Outcome30(validate(GetProp(GetProp(loaded, K("tokens")), K("input")), loaded))

CliInit ==
    /\ tokensFile \in ValidatorTrees
    /\ configFile \in CliConfigs
    /\ config = Null
    /\ rawTokens = Undefined
    /\ tokens = Null
    /\ isLoading = FALSE
    /\ call = Called("new", Undefined, Undefined, 0)
    /\ pc = [c \in Callers |-> Idle]
    /\ log = <<>>
    /\ transforms = registerBuiltInTransforms
    /\ hooks = NoHooks

\* `design-tokens-sync validate`; log is what the command printed and did
CliValidate ==
    /\ call.op = "new"
    /\ call' = Called("validate command", Undefined, Undefined, 0)
    /\ log' = Command(configFile)
    /\ UNCHANGED <<tokensFile, configFile, rawTokens, tokens, config, isLoading, pc,
                   transforms, hooks>>

CliNext == CliValidate

CliSpec == CliInit /\ [][CliNext]_vars

-----------------------------------------------------------------------------
(* BuildHooks.js: registerHook and executeHooks *)

\* The afterProcess hook of registerCommonHooks (BuildHooks.js 51-60) on the
\* model sync stored in this.tokens
AfterProcess(model) ==
    Obj(SetEntry(model.e, K("_metadata"),
                 MkObj(<< E("processedAt", "new Date().toISOString()"),
                          E("version", "2.0.0") >>)))

\* The callbacks a caller registers:
\*   mark a/b   ctx => ({ ...ctx, a: true })
\*   nothing    ctx => {}                       (returns undefined)
\*   throw      ctx => { throw new Error('x') }
\*   reject     ctx => Promise.reject()         (rejects without a reason)
Callbacks ==
    {[does |-> "mark", key |-> "a"], [does |-> "mark", key |-> "b"],
     [does |-> "nothing"], [does |-> "throw", error |-> Failed("x")],
     [does |-> "reject", error |-> Undefined]}

\* Names handed to registerHook and executeHooks: two phases, a name that is
\* no phase, and a name every object inherits
HookNames == {"afterProcess", "beforeValidate", "unknownPhase", "constructor"}

\* Most callbacks registered on one BuildHooks
MaxHooks == 3

\* this.hooks[hookName]: the list of a phase, an inherited function, or
\* undefined
HooksOf(hookName) ==
    IF hookName \in Phases THEN Arr(hooks[hookName])
    ELSE IF <<hookName>> \in ObjectPrototypeKeys THEN Fn(<<hookName>>)
    ELSE Undefined

\* The contexts handed to executeHooks; undefined stands for the default {}
Contexts == {Undefined, MkObj(<< <<K("tokens"), EmptyObject>> >>)}

\* `await hook(context)`, 34: the value the callback resolves to, or what it
\* throws or rejects with.  Of the common hooks, 51-80, the first writes
\* context.tokens._metadata, the second only logs, and the third adds custom
\* CSS to the context when config.output.css is set, which no configuration
\* of the model has.
Settled(hook, context) ==
    CASE hook.does = "mark" ->
            Obj(SetEntry(IF IsObj(context) THEN context.e ELSE <<>>,
                         K(hook.key), Bool(TRUE)))
      [] hook.does = "nothing" -> Undefined
      [] hook.does = "metadata" ->
            IF Truthy(GetProp(context, K("tokens")))
            THEN Obj(SetEntry(context.e, K("tokens"),
                              AfterProcess(GetProp(context, K("tokens")))))
            ELSE context
      [] hook.does \in {"validateReferences", "customCSS"} -> context
      [] OTHER -> [t |-> "throw", error |-> hook.error]

\* What executeHooks settles with: the context or the error, and the
\* callbacks it has called, by their place in the list
Resolved(context, ran) == [t |-> "resolved", context |-> context, ran |-> ran]
Rejected(name, ran) == [t |-> "rejected", name |-> name, ran |-> ran]

\* console.error(..., error.message), 39: reading .message of null or
\* undefined raises inside the catch block
CatchRaises(error) == Nullish(error)

\* The loop of executeHooks, 32-41
RECURSIVE RunHooks(_, _, _, _)
RunHooks(list, i, context, result) ==
    IF i > Len(list) THEN Resolved(context, [j \in 1..Len(list) |-> j])
    ELSE IF IsThrow(result)
    THEN IF CatchRaises(result.error)
         THEN Rejected("TypeError", [j \in 1..i |-> j])
         ELSE RunHooks(list, i + 1, context,
                       IF i < Len(list) THEN Settled(list[i + 1], context) ELSE Undefined)
    ELSE RunHooks(list, i + 1, IF result # Undefined THEN result ELSE context,
                  IF i < Len(list)
                  THEN Settled(list[i + 1], IF result # Undefined THEN result ELSE context)
                  ELSE Undefined)

\* executeHooks(hookName, context = {}): 29-44
executeHooks(hookName, context) ==
    IF ~Truthy(HooksOf(hookName)) THEN Resolved(context, <<>>)
    ELSE IF HooksOf(hookName).t # "array" THEN Rejected("TypeError", <<>>)
    ELSE IF HooksOf(hookName).a = <<>> THEN Resolved(context, <<>>)
    ELSE RunHooks(HooksOf(hookName).a, 1, context, Settled(HooksOf(hookName).a[1], context))

HooksInit ==
    /\ tokensFile = EmptyObject
    /\ configFile = TemplateConfig
    /\ config = Null
    /\ rawTokens = Undefined
    /\ tokens = Null
    /\ isLoading = FALSE
    /\ call = Invoked("new", Undefined, Undefined, Undefined)
    /\ pc = [c \in Callers |-> Idle]
    /\ log = <<>>
    /\ transforms = registerBuiltInTransforms
    /\ hooks = NoHooks

\* The callbacks registered so far
Registered == Len(hooks["afterProcess"]) + Len(hooks["beforeValidate"])

\* registerHook(hookName, callback): 20-24
RegisterHook ==
    \E hookName \in HookNames, callback \in Callbacks :
        /\ Registered < MaxHooks
        /\ IF ~Truthy(HooksOf(hookName))
           THEN /\ call' = Invoked("registerHook", callback, hookName, Undefined)
                /\ UNCHANGED hooks
           ELSE IF HooksOf(hookName).t # "array"
           THEN /\ call' = Invoked("registerHook", callback, hookName, Throw("TypeError"))
                /\ UNCHANGED hooks
           ELSE /\ call' = Invoked("registerHook", callback, hookName, Undefined)
                /\ hooks' = [hooks EXCEPT ![hookName] = Append(@, callback)]
        /\ UNCHANGED <<tokensFile, configFile, rawTokens, tokens, config, isLoading, pc,
                       log, transforms>>

\* buildHooks.executeHooks(hookName, context)
CallExecuteHooks ==
    \E hookName \in HookNames, context \in Contexts :
        /\ call' = Invoked("executeHooks", context, hookName,
                           executeHooks(hookName,
                                        IF context = Undefined THEN EmptyObject ELSE context))
        /\ UNCHANGED <<tokensFile, configFile, rawTokens, tokens, config, isLoading, pc,
                       log, transforms, hooks>>

HooksNext ==
    \/ RegisterHook
    \/ CallExecuteHooks

HooksSpec == HooksInit /\ [][HooksNext]_vars

-----------------------------------------------------------------------------
(* TokenProcessor.js: sync, step by step *)

\* A document valid under every configuration of SyncConfigs, with warnings
WithWarnings == MkObj(<< <<K("colors"), Shade(K("primary"), Shade(<<"5", "0", "0">>, Fff))>> >>)

\* A document that validates without any warning under TemplateConfig
Clean ==
    MkObj(<< <<K("colors"), Shade(K("primary"), Shade(K("base"), Str(<<"r", "e", "d">>)))>>,
             <<K("spacing"),
               MkObj(<< <<K("0"), Str(<<"1", "p", "x">>)>>, <<K("1"), Str(<<"2", "p", "x">>)>>,
                        <<K("2"), FourPx>>, <<K("4"), Str(<<"8", "p", "x">>)>>,
                        <<K("8"), Str(<<"1", "6", "p", "x">>)>>,
                        <<<<"1", "6">>, Str(<<"3", "2", "p", "x">>)>> >>)>>,
             <<K("typography"), Shade(K("fontFamily"), Shade(K("sans"), Arial))>> >>)

\* A valid document whose references form a cycle, which transformTokens
\* cannot resolve
Cyclic ==
    MkObj(<< <<K("colors"), Shade(K("primary"), Shade(K("base"), Str(<<"r", "e", "d">>)))>>,
             <<K("a"), Leaf(Ref(<<"b">>))>>, <<K("b"), Leaf(Ref(<<"a">>))>> >>)

\* Documents the tokens file may hold from one sync to the next: valid ones,
\* ones with errors, and a null root.
SyncDocuments ==
    {WithWarnings, Clean, Cyclic, EmptyObject, MkObj(<< <<K("core"), TokenStudioCore>> >>), Null}
SyncConfigs == {TemplateConfig, DocumentedConfig}

\* Longest record of calls to the file generator and the git manager
MaxLog == 4

\* A gate that stops no run.
Unforced(isValid, force) == FALSE

\* `!validation.isValid && !options.force`: 553
Blocked(isValid, force) == ~isValid /\ ~force

SyncInit ==
    /\ tokensFile \in SyncDocuments
    /\ configFile \in SyncConfigs
    /\ config = Null
    /\ rawTokens = Undefined
    /\ tokens = Null
    /\ isLoading = FALSE
    /\ call = Called("new", Undefined, Undefined, 0)
    /\ pc = [c \in Callers |-> Idle]
    /\ log = <<>>
    /\ transforms = registerBuiltInTransforms
    /\ hooks = registerCommonHooks

\* sync(options) up to the validation, 519-549: the configuration is loaded
\* if it is not, the file is read and kept in this.rawTokens (no beforeProcess
\* hook is registered, the beforeValidate hook only logs).  Called by the
\* change handler of watch, 614-620, this.tokens and this.rawTokens are
\* cleared first.
SyncStart(c, force, noGit, watching) ==
    /\ \A d \in Callers : pc[d] = Idle
    /\ Len(log) + 2 <= MaxLog
    /\ config' = configFile
    /\ rawTokens' = tokensFile
    /\ tokens' = IF watching THEN Null ELSE tokens
    /\ pc' = Goto(c, [at |-> "validate", force |-> force, noGit |-> noGit])
    /\ UNCHANGED <<tokensFile, configFile, isLoading, call, log, transforms, hooks>>

\* 552-560: validate, and the gate on its result
Gate(c, validation) ==
    IF IsThrow(validation) THEN Goto(c, Done(validation))
    ELSE IF Blocked(validation.isValid, pc[c].force)
    THEN Goto(c, Done(Failed("Token validation failed")))
    ELSE Goto(c, [pc[c] EXCEPT !.at = "transform"])

SyncValidate(c) ==
    /\ pc[c].at = "validate"
    /\ pc' = Gate(c, validate(rawTokens, configFile))
    /\ UNCHANGED <<tokensFile, configFile, rawTokens, tokens, config, isLoading, call, log, transforms, hooks>>

\* 562-574: this.tokens = this.transformTokens(rawTokens) and the hooks
\* around it
Transformed(c, model) ==
    /\ tokens' = IF IsThrow(model) THEN tokens ELSE AfterProcess(model)
    /\ pc' = IF IsThrow(model) THEN Goto(c, Done(model))
             ELSE Goto(c, [pc[c] EXCEPT !.at = "generate"])

SyncTransform(c) ==
    /\ pc[c].at = "transform"
    /\ Transformed(c, transformTokens(rawTokens, rawTokens))
    /\ UNCHANGED <<tokensFile, configFile, rawTokens, config, isLoading, call, log, transforms, hooks>>

\* 577-580: fileGenerator.generateAll, which writes files and may fail
SyncGenerate(c) ==
    /\ pc[c].at = "generate"
    /\ log' = Append(log, "generateAll")
    /\ \E ok \in BOOLEAN :
        pc' = IF ok THEN Goto(c, [pc[c] EXCEPT !.at = "commit"])
              ELSE Goto(c, Done(Failed("generateAll")))
    /\ UNCHANGED <<tokensFile, configFile, rawTokens, tokens, config, isLoading, call, transforms, hooks>>

\* 583-588: the git commit, if enabled and not turned off, and the return
SyncCommit(c) ==
    /\ pc[c].at = "commit"
    /\ log' = IF Truthy(GetProp(GetProp(config, K("git")), K("enabled"))) /\ ~pc[c].noGit
              THEN Append(log, "commitChanges") ELSE log
    /\ pc' = Goto(c, Done(Bool(TRUE)))
    /\ UNCHANGED <<tokensFile, configFile, rawTokens, tokens, config, isLoading, call, transforms, hooks>>

\* The caller takes the result of its call
Settle(c) ==
    /\ pc[c].at = "done"
    /\ pc' = Goto(c, Idle)
    /\ UNCHANGED <<tokensFile, configFile, rawTokens, tokens, config, isLoading, call, log, transforms, hooks>>

\* The tokens file is rewritten
FileChanged(documents) ==
    /\ \E document \in documents \ {tokensFile} : tokensFile' = document
    /\ UNCHANGED <<configFile, rawTokens, tokens, config, isLoading, call, pc, log, transforms, hooks>>

SyncNext ==
    \/ \E force \in BOOLEAN, noGit \in BOOLEAN, watching \in BOOLEAN :
            SyncStart(1, force, noGit, watching)
    \/ SyncValidate(1)
    \/ SyncTransform(1)
    \/ SyncGenerate(1)
    \/ SyncCommit(1)
    \/ Settle(1)
    \/ FileChanged(SyncDocuments)

SyncSpec == SyncInit /\ [][SyncNext]_vars

-----------------------------------------------------------------------------
(* TokenProcessor.js: loadTokens called concurrently, await by await *)

\* The tokens file when it does not exist
Absent == [t |-> "absent"]

\* What the tokens file may hold while callers load it
LoadDocuments == {Clean, Cyclic, Absent}

\* Where a call of loadTokens that holds the load stands: awaiting init (60),
\* fs.pathExists (65) or fs.readJSON (69)
LoadingAt == {"init", "exists", "read"}

\* A guard that lets every caller through.
NotBusy(loading) == FALSE

\* `if (this.isLoading)`: 48
Busy(loading) == loading

\* The `finally` of loadTokens after an error: 75-81
LoadFailed(c, error) ==
    /\ isLoading' = FALSE
    /\ pc' = Goto(c, Done(error))

LoadInit ==
    /\ tokensFile \in LoadDocuments
    /\ configFile = TemplateConfig
    /\ config = Null
    /\ rawTokens = Undefined
    /\ tokens = Null
    /\ isLoading = FALSE
    /\ call = Called("new", Undefined, Undefined, 0)
    /\ pc = [c \in Callers |-> Idle]
    /\ log = <<>>
    /\ transforms = registerBuiltInTransforms
    /\ hooks = registerCommonHooks

\* loadTokens(forceReload) up to its first await, 43-65: the cached model is
\* returned; or the caller starts polling; or it takes the load and awaits
\* init() or fs.pathExists.
LoadTokensCall(c, forceReload) ==
    /\ pc[c] = Idle
    /\ IF Truthy(tokens) /\ ~forceReload
       THEN /\ pc' = Goto(c, Done(tokens))
            /\ UNCHANGED isLoading
       ELSE IF Busy(isLoading)
       THEN /\ pc' = Goto(c, [at |-> "wait"])
            /\ UNCHANGED isLoading
       ELSE /\ isLoading' = TRUE
            /\ pc' = Goto(c, [at |-> IF Truthy(config) THEN "exists" ELSE "init"])
    /\ UNCHANGED <<tokensFile, configFile, rawTokens, tokens, config, call, log, transforms, hooks>>

\* `await this.init()` settles, 35-38 and 60: the configuration is stored, or
\* loading it failed
LoadTokensInit(c) ==
    /\ pc[c].at = "init"
    /\ \E ok \in BOOLEAN :
        IF ok
        THEN /\ config' = configFile
             /\ pc' = Goto(c, [at |-> "exists"])
             /\ UNCHANGED isLoading
        ELSE /\ LoadFailed(c, Failed("loadConfig"))
             /\ UNCHANGED config
    /\ UNCHANGED <<tokensFile, configFile, rawTokens, tokens, call, log, transforms, hooks>>

\* `await fs.pathExists(tokensPath)` settles: 65-67
LoadTokensPathExists(c) ==
    /\ pc[c].at = "exists"
    /\ IF tokensFile = Absent
       THEN LoadFailed(c, Failed("Tokens file not found"))
       ELSE /\ pc' = Goto(c, [at |-> "read"])
            /\ UNCHANGED isLoading
    /\ UNCHANGED <<tokensFile, configFile, rawTokens, tokens, config, call, log, transforms, hooks>>

\* 70-73 and 79-81, once the document is read
LoadTokensStore(c, model) ==
    /\ rawTokens' = tokensFile
    /\ tokens' = IF IsThrow(model) THEN tokens ELSE model
    /\ isLoading' = FALSE
    /\ pc' = Goto(c, Done(model))

\* `await fs.readJSON(tokensPath)` settles, 69-81: the document is stored and
\* transformed; a file removed since the check, or a transformation that
\* throws, ends the load with the error
LoadTokensRead(c) ==
    /\ pc[c].at = "read"
    /\ IF tokensFile = Absent
       THEN /\ LoadFailed(c, Failed("ENOENT"))
            /\ UNCHANGED <<rawTokens, tokens>>
       ELSE LoadTokensStore(c, transformTokens(tokensFile, tokensFile))
    /\ UNCHANGED <<tokensFile, configFile, config, call, log, transforms, hooks>>

\* The 10 ms timer of a polling caller fires, 50-53, and finds the load over
\* (while isLoading holds the caller only sets the timer again)
LoadTokensPoll(c) ==
    /\ pc[c].at = "wait"
    /\ ~isLoading
    /\ pc' = Goto(c, Done(tokens))
    /\ UNCHANGED <<tokensFile, configFile, rawTokens, tokens, config, isLoading, call, log, transforms, hooks>>

\* refresh(): 647-649
Refresh ==
    /\ tokens # Null
    /\ tokens' = Null
    /\ UNCHANGED <<tokensFile, configFile, rawTokens, config, isLoading, call, pc, log, transforms, hooks>>

LoadNext ==
    \/ \E c \in Callers, forceReload \in BOOLEAN : LoadTokensCall(c, forceReload)
    \/ \E c \in Callers : LoadTokensInit(c)
    \/ \E c \in Callers : LoadTokensPathExists(c)
    \/ \E c \in Callers : LoadTokensRead(c)
    \/ \E c \in Callers : LoadTokensPoll(c)
    \/ \E c \in Callers : Settle(c)
    \/ Refresh
    \/ FileChanged(LoadDocuments)

LoadSpec == LoadInit /\ [][LoadNext]_vars

-----------------------------------------------------------------------------
(* TokenProcessor.js: runs of sync that overlap, await by await *)

\* Two documents that validate: the first holds a reference it cannot
\* resolve itself, the second the token that reference names
Dangling ==
    MkObj(<< <<K("colors"), Shade(K("primary"), Shade(K("base"), Str(<<"r", "e", "d">>)))>>,
             <<K("spacing"), Shade(K("sm"), Ref(<<"base", ".", "unit">>))>> >>)
Based ==
    MkObj(<< <<K("colors"), Shade(K("primary"), Shade(K("base"), Str(<<"r", "e", "d">>)))>>,
             <<K("base"), Shade(K("unit"), Str(<<"4", "p", "x">>))>> >>)

\* What the tokens file may hold while runs overlap: also a document with
\* errors, and no file
RunDocuments == {Dangling, Based, EmptyObject, Absent}

\* The callbacks registered next to the common hooks: none, one that throws
\* an Error, one that rejects without a reason
HookSetups ==
    {registerCommonHooks,
     [registerCommonHooks EXCEPT
        !["beforeProcess"] = <<[does |-> "throw", error |-> Failed("x")]>>],
     [registerCommonHooks EXCEPT
        !["beforeGenerate"] = Append(@, [does |-> "reject", error |-> Undefined])]}

\* The callers whose runs overlap, one run each: a direct call of sync, and
\* the change handler of watch
Runs == {1, 2}

\* The context sync hands to the hooks of a phase: 538-542, 562, 569
Ctx(raw, model) ==
    IF model = Undefined THEN MkObj(<< <<K("rawTokens"), raw>> >>)
    ELSE MkObj(<< <<K("rawTokens"), raw>>, <<K("tokens"), model>> >>)

\* A run of sync at an await: its options, its local rawTokens, the model it
\* stored in this.tokens (context.tokens) and whether this.tokens still is
\* that object, the phases it has completed, and the model it handed to
\* generateAll
Running(at, force, noGit) ==
    [at |-> at, force |-> force, noGit |-> noGit, raw |-> Undefined, model |-> Undefined,
     mine |-> FALSE, phases |-> <<>>, handed |-> Undefined]

\* The run goes on to the next await, the phases it completed recorded
Proceed(c, at, completed) ==
    [pc EXCEPT ![c].at = at, ![c].phases = @ \o completed]

\* The run ends: sync returns true, or throws (590-593)
Ended(c, ret, completed) ==
    [pc EXCEPT ![c] = [at |-> "done", ret |-> ret, phases |-> pc[c].phases \o completed,
                       handed |-> pc[c].handed, raw |-> pc[c].raw, noGit |-> pc[c].noGit]]

\* The error executeHooks rejects with
HookError(result) == Throw(result.name)

RunInit ==
    /\ tokensFile \in RunDocuments
    /\ configFile = TemplateConfig
    /\ config = Null
    /\ rawTokens = Undefined
    /\ tokens = Null
    /\ isLoading = FALSE
    /\ call = Called("new", Undefined, Undefined, 0)
    /\ pc = [c \in Callers |-> Idle]
    /\ log = <<>>
    /\ transforms = registerBuiltInTransforms
    /\ hooks \in HookSetups

\* sync(options) up to its first await, 519-529; called by the change
\* handler of watch, 614-620, this.tokens and this.rawTokens are cleared
\* first and no options are passed
RunStart(c, force, noGit, watching) ==
    /\ pc[c] = Idle
    /\ watching => ~force /\ ~noGit
    /\ tokens' = IF watching THEN Null ELSE tokens
    /\ rawTokens' = IF watching THEN Null ELSE rawTokens
    /\ pc' = [d \in Callers |->
                IF d = c
                THEN Running(IF Truthy(config) THEN "exists" ELSE "init", force, noGit)
                ELSE IF watching /\ pc[d].at \notin {"idle", "done"}
                THEN [pc[d] EXCEPT !.mine = FALSE]
                ELSE pc[d]]
    /\ UNCHANGED <<tokensFile, configFile, config, isLoading, call, log, transforms, hooks>>

\* `await this.init()` settles: 526-528
RunConfig(c) ==
    /\ pc[c].at = "init"
    /\ \E ok \in BOOLEAN :
        IF ok
        THEN /\ config' = configFile
             /\ pc' = Proceed(c, "exists", <<>>)
        ELSE /\ pc' = Ended(c, Failed("loadConfig"), <<>>)
             /\ UNCHANGED config
    /\ UNCHANGED <<tokensFile, configFile, rawTokens, tokens, isLoading, call, log,
                   transforms, hooks>>

\* `await fs.pathExists(tokensPath)` settles: 530-534
RunPathExists(c) ==
    /\ pc[c].at = "exists"
    /\ pc' = IF tokensFile = Absent
             THEN Ended(c, Failed("Tokens file not found"), <<>>)
             ELSE Proceed(c, "read", <<>>)
    /\ UNCHANGED <<tokensFile, configFile, rawTokens, tokens, config, isLoading, call, log,
                   transforms, hooks>>

\* `await fs.readJSON(tokensPath)` settles and the beforeProcess hooks are
\* called: 536-543
RunRead(c) ==
    /\ pc[c].at = "read"
    /\ pc' = IF tokensFile = Absent THEN Ended(c, Failed("ENOENT"), <<>>)
             ELSE [Proceed(c, "beforeProcess", <<"read">>) EXCEPT ![c].raw = tokensFile]
    /\ UNCHANGED <<tokensFile, configFile, rawTokens, tokens, config, isLoading, call, log,
                   transforms, hooks>>

\* The beforeProcess hooks settle, 539-550: this.rawTokens is written and
\* the beforeValidate hooks are called
BeforeProcessed(c, result) ==
    IF result.t = "rejected"
    THEN /\ pc' = Ended(c, HookError(result), <<>>)
         /\ UNCHANGED rawTokens
    ELSE /\ rawTokens' = GetProp(result.context, K("rawTokens"))
         /\ pc' = [Proceed(c, "beforeValidate", <<"beforeProcess">>)
                     EXCEPT ![c].raw = GetProp(result.context, K("rawTokens"))]

RunBeforeProcess(c) ==
    /\ pc[c].at = "beforeProcess"
    /\ BeforeProcessed(c, executeHooks("beforeProcess", Ctx(pc[c].raw, Undefined)))
    /\ UNCHANGED <<tokensFile, configFile, tokens, config, isLoading, call, log, transforms,
                   hooks>>

\* The beforeValidate hooks settle and validate is called: 550-553
RunBeforeValidate(c) ==
    /\ pc[c].at = "beforeValidate"
    /\ pc' = IF executeHooks("beforeValidate", Ctx(pc[c].raw, Undefined)).t = "rejected"
             THEN Ended(c, Throw("TypeError"), <<>>)
             ELSE Proceed(c, "validate", <<"beforeValidate">>)
    /\ UNCHANGED <<tokensFile, configFile, rawTokens, tokens, config, isLoading, call, log,
                   transforms, hooks>>

\* A run that goes on without the validation.
Ungated(c, validation) == Proceed(c, "afterValidate", <<>>)

\* validate settles, 553-564: the gate, and the afterValidate hooks are called
Gated(c, validation) ==
    IF IsThrow(validation) THEN Ended(c, validation, <<>>)
    ELSE IF Blocked(validation.isValid, pc[c].force)
    THEN Ended(c, Failed("Token validation failed"), <<>>)
    ELSE Proceed(c, "afterValidate", <<"validate">>)

RunValidate(c) ==
    /\ pc[c].at = "validate"
    /\ pc' = Gated(c, validate(pc[c].raw, configFile))
    /\ UNCHANGED <<tokensFile, configFile, rawTokens, tokens, config, isLoading, call, log,
                   transforms, hooks>>

\* The afterValidate hooks settle, 564-570: this.tokens becomes the model
\* transformTokens makes of the run's rawTokens, and the afterProcess hooks
\* are called
AfterValidated(c, result, model) ==
    IF result.t = "rejected"
    THEN /\ pc' = Ended(c, HookError(result), <<>>)
         /\ UNCHANGED tokens
    ELSE IF IsThrow(model)
    THEN /\ pc' = Ended(c, model, <<"afterValidate">>)
         /\ UNCHANGED tokens
    ELSE /\ tokens' = model
         /\ pc' = [d \in Callers |->
                    IF d = c
                    THEN [pc[c] EXCEPT !.at = "afterProcess", !.model = model, !.mine = TRUE,
                                       !.phases = @ \o <<"afterValidate", "transform">>]
                    ELSE IF pc[d].at \notin {"idle", "done"}
                    THEN [pc[d] EXCEPT !.mine = FALSE]
                    ELSE pc[d]]

RunAfterValidate(c) ==
    /\ pc[c].at = "afterValidate"
    /\ AfterValidated(c, executeHooks("afterValidate", Ctx(pc[c].raw, Undefined)),
                      transformTokens(pc[c].raw, rawTokens))
    /\ UNCHANGED <<tokensFile, configFile, rawTokens, config, isLoading, call, log,
                   transforms, hooks>>

\* The afterProcess hooks settle, 570-573: what they wrote into
\* context.tokens is in this.tokens if that still is the run's object; the
\* beforeGenerate hooks are called
AfterProcessed(c, result) ==
    IF result.t = "rejected"
    THEN /\ pc' = Ended(c, HookError(result), <<>>)
         /\ UNCHANGED tokens
    ELSE /\ tokens' = IF pc[c].mine THEN GetProp(result.context, K("tokens")) ELSE tokens
         /\ pc' = [Proceed(c, "beforeGenerate", <<"afterProcess">>)
                     EXCEPT ![c].model = GetProp(result.context, K("tokens"))]

RunAfterProcess(c) ==
    /\ pc[c].at = "afterProcess"
    /\ AfterProcessed(c, executeHooks("afterProcess", Ctx(pc[c].raw, pc[c].model)))
    /\ UNCHANGED <<tokensFile, configFile, rawTokens, config, isLoading, call, log,
                   transforms, hooks>>

\* The beforeGenerate hooks settle and generateAll(this.tokens, ...) is
\* called: 573-577
RunBeforeGenerate(c) ==
    /\ pc[c].at = "beforeGenerate"
    /\ pc' = IF executeHooks("beforeGenerate", Ctx(pc[c].raw, pc[c].model)).t = "rejected"
             THEN Ended(c, Throw("TypeError"), <<>>)
             ELSE [Proceed(c, "generate", <<"beforeGenerate">>) EXCEPT ![c].handed = tokens]
    /\ UNCHANGED <<tokensFile, configFile, rawTokens, tokens, config, isLoading, call, log,
                   transforms, hooks>>

\* generateAll settles, having written the files or failed, and the
\* afterGenerate hooks are called: 577-580
RunGenerate(c) ==
    /\ pc[c].at = "generate"
    /\ \E ok \in BOOLEAN :
        pc' = IF ok THEN Proceed(c, "afterGenerate", <<"generate">>)
              ELSE Ended(c, Failed("generateAll"), <<>>)
    /\ UNCHANGED <<tokensFile, configFile, rawTokens, tokens, config, isLoading, call, log,
                   transforms, hooks>>

\* The afterGenerate hooks settle, 580-588: the commit is called, or sync
\* returns true
RunAfterGenerate(c) ==
    /\ pc[c].at = "afterGenerate"
    /\ pc' = IF executeHooks("afterGenerate", Ctx(pc[c].raw, pc[c].model)).t = "rejected"
             THEN Ended(c, Throw("TypeError"), <<>>)
             ELSE IF Truthy(GetProp(GetProp(config, K("git")), K("enabled"))) /\ ~pc[c].noGit
             THEN Proceed(c, "commit", <<"afterGenerate">>)
             ELSE Ended(c, Bool(TRUE), <<"afterGenerate">>)
    /\ UNCHANGED <<tokensFile, configFile, rawTokens, tokens, config, isLoading, call, log,
                   transforms, hooks>>

\* commitChanges settles: 584-588
RunCommit(c) ==
    /\ pc[c].at = "commit"
    /\ \E ok \in BOOLEAN :
        pc' = IF ok THEN Ended(c, Bool(TRUE), <<"commit">>)
              ELSE Ended(c, Failed("commitChanges"), <<>>)
    /\ UNCHANGED <<tokensFile, configFile, rawTokens, tokens, config, isLoading, call, log,
                   transforms, hooks>>

RunNext ==
    \/ \E force \in BOOLEAN, noGit \in BOOLEAN : RunStart(1, force, noGit, FALSE)
    \/ RunStart(2, FALSE, FALSE, TRUE)
    \/ \E c \in Runs : RunConfig(c)
    \/ \E c \in Runs : RunPathExists(c)
    \/ \E c \in Runs : RunRead(c)
    \/ \E c \in Runs : RunBeforeProcess(c)
    \/ \E c \in Runs : RunBeforeValidate(c)
    \/ \E c \in Runs : RunValidate(c)
    \/ \E c \in Runs : RunAfterValidate(c)
    \/ \E c \in Runs : RunAfterProcess(c)
    \/ \E c \in Runs : RunBeforeGenerate(c)
    \/ \E c \in Runs : RunGenerate(c)
    \/ \E c \in Runs : RunAfterGenerate(c)
    \/ \E c \in Runs : RunCommit(c)
    \/ FileChanged(RunDocuments)

RunSpec == RunInit /\ [][RunNext]_vars

-----------------------------------------------------------------------------
(* TokenProcessor.js: the cached model over loadTokens, sync, refresh,     *)
(* getTokens and the change handler of watch, one call after the other     *)

\* What the tokens file may hold from one call to the next
CacheDocuments == {Clean, Cyclic, EmptyObject, Absent}

\* The call that returned last: its result, this.tokens when it was made,
\* and whether it read the tokens file (fs.readJSON)
Answered(op, arg, ret, cached, read) ==
    [op |-> op, arg |-> arg, ret |-> ret, pass |-> 0, cached |-> cached, read |-> read]

\* Longest record of the calls that succeeded since the last refresh
MaxSucceeded == 2

\* log with one more call that succeeded
Succeeded28(op) == IF Len(log) < MaxSucceeded THEN Append(log, op) ELSE log

\* getTokens(): 654-659
getTokens(cached) ==
    IF ~Truthy(cached) THEN Failed("Tokens not loaded. Call loadTokens() first.")
    ELSE cached

\* A processor after its constructor; log holds the calls of loadTokens and
\* sync that succeeded since the last refresh or change event
CacheInit ==
    /\ tokensFile \in CacheDocuments
    /\ configFile = TemplateConfig
    /\ config = Null
    /\ rawTokens = Undefined
    /\ tokens = Null
    /\ isLoading = FALSE
    /\ call = Called("new", Undefined, Undefined, 0)
    /\ pc = [c \in Callers |-> Idle]
    /\ log = <<>>
    /\ transforms = registerBuiltInTransforms
    /\ hooks = registerCommonHooks

\* loadTokens(forceReload) answered from the cache: 44-46
CacheHit(forceReload) ==
    /\ Truthy(tokens) /\ ~forceReload
    /\ call' = Answered("loadTokens", Bool(forceReload), tokens, tokens, FALSE)
    /\ UNCHANGED <<tokensFile, configFile, rawTokens, tokens, config, isLoading, pc, log,
                   transforms, hooks>>

\* loadTokens(forceReload) whose file does not exist: 56-67 and 75-81
CacheMiss(forceReload) ==
    /\ ~(Truthy(tokens) /\ ~forceReload)
    /\ tokensFile = Absent
    /\ config' = configFile
    /\ call' = Answered("loadTokens", Bool(forceReload), Failed("Tokens file not found"),
                        tokens, FALSE)
    /\ UNCHANGED <<tokensFile, configFile, rawTokens, tokens, isLoading, pc, log,
                   transforms, hooks>>

\* 69-81: the document read is kept and transformed
CacheStore(forceReload, model) ==
    /\ rawTokens' = tokensFile
    /\ tokens' = IF IsThrow(model) THEN tokens ELSE model
    /\ log' = IF IsThrow(model) THEN log ELSE Succeeded28("loadTokens")
    /\ call' = Answered("loadTokens", Bool(forceReload), model, tokens, TRUE)

\* loadTokens(forceReload) that reads the file: 56-81
CacheLoad(forceReload) ==
    /\ ~(Truthy(tokens) /\ ~forceReload)
    /\ tokensFile # Absent
    /\ config' = configFile
    /\ CacheStore(forceReload, transformTokens(tokensFile, tokensFile))
    /\ UNCHANGED <<tokensFile, configFile, isLoading, pc, transforms, hooks>>

\* What a call of sync leaves, 519-594: the error of the step that failed
\* (validate, the gate, transformTokens, and generateAll or commitChanges,
\* which write and may fail), or true; this.tokens is assigned at 568.
Synced(before, validation, model, force, written) ==
    IF IsThrow(validation) THEN [tokens |-> before, ret |-> validation]
    ELSE IF Blocked(validation.isValid, force)
    THEN [tokens |-> before, ret |-> Failed("Token validation failed")]
    ELSE IF IsThrow(model) THEN [tokens |-> before, ret |-> model]
    ELSE IF ~written THEN [tokens |-> AfterProcess(model), ret |-> Failed("generateAll")]
    ELSE [tokens |-> AfterProcess(model), ret |-> Bool(TRUE)]

\* 519-594 once the file is read, the log reset by a change event first
CacheSynced(op, since, before, out) ==
    /\ rawTokens' = tokensFile
    /\ tokens' = out.tokens
    /\ log' = IF IsThrow(out.ret) THEN since
              ELSE IF Len(since) < MaxSucceeded THEN Append(since, "sync") ELSE since
    /\ call' = Answered(op, Undefined, out.ret, before, TRUE)

\* sync(options): 519-594
CacheSync(force, written) ==
    /\ config' = configFile
    /\ IF tokensFile = Absent
       THEN /\ call' = Answered("sync", Undefined, Failed("Tokens file not found"),
                                tokens, FALSE)
            /\ UNCHANGED <<rawTokens, tokens, log>>
       ELSE CacheSynced("sync", log, tokens,
                        Synced(tokens, validate(tokensFile, configFile),
                               transformTokens(tokensFile, tokensFile), force, written))
    /\ UNCHANGED <<tokensFile, configFile, isLoading, pc, transforms, hooks>>

\* The change handler of watch, 614-624: the cache is cleared, then sync()
CacheChange(written) ==
    /\ Truthy(config)
    /\ IF tokensFile = Absent
       THEN /\ call' = Answered("change", Undefined, Failed("Tokens file not found"),
                                tokens, FALSE)
            /\ tokens' = Null
            /\ rawTokens' = Null
            /\ log' = <<>>
       ELSE CacheSynced("change", <<>>, tokens,
                        Synced(Null, validate(tokensFile, configFile),
                               transformTokens(tokensFile, tokensFile), FALSE, written))
    /\ UNCHANGED <<tokensFile, configFile, config, isLoading, pc, transforms, hooks>>

\* refresh(): 647-649
CacheRefresh ==
    /\ tokens' = Null
    /\ log' = <<>>
    /\ call' = Answered("refresh", Undefined, Undefined, tokens, FALSE)
    /\ UNCHANGED <<tokensFile, configFile, rawTokens, config, isLoading, pc, transforms,
                   hooks>>

\* getTokens(): 654-659
CallGetTokens ==
    /\ call' = Answered("getTokens", Undefined, getTokens(tokens), tokens, FALSE)
    /\ UNCHANGED <<tokensFile, configFile, rawTokens, tokens, config, isLoading, pc, log,
                   transforms, hooks>>

CacheNext ==
    \/ \E forceReload \in BOOLEAN : CacheHit(forceReload)
    \/ \E forceReload \in BOOLEAN : CacheMiss(forceReload)
    \/ \E forceReload \in BOOLEAN : CacheLoad(forceReload)
    \/ \E force \in BOOLEAN, written \in BOOLEAN : CacheSync(force, written)
    \/ \E written \in BOOLEAN : CacheChange(written)
    \/ CacheRefresh
    \/ CallGetTokens
    \/ FileChanged(CacheDocuments)

CacheSpec == CacheInit /\ [][CacheNext]_vars

-----------------------------------------------------------------------------
(* What the specification says of references, stated on the tree itself *)

\* A whole-string reference "{p}" and its path p.
IsReference(v) == IsStr(v) /\ Len(v.s) >= 2 /\ v.s[1] = "{" /\ v.s[Len(v.s)] = "}"
PathOf(v) == Split(SubSeq(v.s, 2, Len(v.s) - 1), ".")

\* The member k the tree itself holds in node v: an own key of an object, an
\* element of an array; Undefined when there is none.
Member(v, k) ==
    CASE v.t = "object" -> IF HasOwn(v.e, k) THEN OwnValue(v.e, k) ELSE Undefined
      [] v.t = "array" ->
            IF IsArrayIndex(k) /\ IndexVal(k) < Len(v.a) THEN v.a[IndexVal(k) + 1]
            ELSE Undefined
      [] OTHER -> Undefined

\* The node of the tree at a path, Undefined when a segment is absent.
RECURSIVE NodeAt(_, _, _)
NodeAt(node, parts, i) ==
    IF i > Len(parts) \/ node = Undefined THEN node
    ELSE NodeAt(Member(node, parts[i]), parts, i + 1)

IsValueLeaf(node) == node.t = "object" /\ HasOwn(node.e, VALUE)

\* The value a reference leads to next: the `value` of the value leaf it
\* names, or (when bare strings count) the bare string it names.
NextValue(v, tree, bare) ==
    IF ~IsReference(v) THEN Undefined
    ELSE LET node == NodeAt(tree, PathOf(v), 1)
         IN IF IsValueLeaf(node) THEN OwnValue(node.e, VALUE)
            ELSE IF bare /\ IsStr(node) THEN node
            ELSE Undefined

\* v leads to target in 1..n reference hops.
RECURSIVE LeadsTo(_, _, _, _, _)
LeadsTo(v, target, tree, bare, n) ==
    /\ n > 0
    /\ NextValue(v, tree, bare) # Undefined
    /\ \/ NextValue(v, tree, bare) = target
       \/ LeadsTo(NextValue(v, tree, bare), target, tree, bare, n - 1)

Hops(tree) == Cardinality(StringsIn(tree)) + 1

\* v lies on a reference cycle among value leaves.
OnLeafCycle(v, tree) == LeadsTo(v, v, tree, FALSE, Hops(tree))

\* No reference of the tree leads back to itself, through value leaves or
\* bare strings.
Acyclic(tree) == \A v \in StringsIn(tree) : ~LeadsTo(v, v, tree, TRUE, Hops(tree))

\* The literal at the end of the chain of value leaves that v heads;
\* Undefined when the chain breaks or does not end within n hops.
RECURSIVE ChainEnd(_, _, _)
ChainEnd(v, tree, n) ==
    IF ~IsReference(v) THEN v
    ELSE IF n = 0 \/ NextValue(v, tree, FALSE) = Undefined THEN Undefined
    ELSE ChainEnd(NextValue(v, tree, FALSE), tree, n - 1)

\* Number of reference hops from v to the end of its chain.
RECURSIVE ChainLength(_, _, _)
ChainLength(v, tree, n) ==
    IF ~IsReference(v) \/ n = 0 \/ NextValue(v, tree, FALSE) = Undefined THEN 0
    ELSE 1 + ChainLength(NextValue(v, tree, FALSE), tree, n - 1)

\* The pairs <<string of the raw tree, what the resolved tree holds in its
\* place>>.
RECURSIVE Resolutions(_, _)
Resolutions(raw, res) ==
    CASE raw.t = "string" -> {<<raw, res>>}
      [] raw.t = "object" /\ res.t = "object" ->
            UNION {Resolutions(raw.e[i][2], Member(res, raw.e[i][1])) : i \in 1..Len(raw.e)}
      [] raw.t = "array" /\ res.t = "array" ->
            UNION {Resolutions(raw.a[i], Member(res, IndexKey(i - 1))) : i \in 1..Len(raw.a)}
      [] OTHER -> {}

ResolvedValue(op) == call.op = op /\ ~IsThrow(call.ret)
FirstPass == call.op = "resolveAllTokenReferences" /\ call.pass = 1

-----------------------------------------------------------------------------
(* Claims *)

\* C1: cycle safety.  On a tree with a reference cycle among value leaves,
\* resolveTokenValue and resolveAllTokenReferences terminate (no unbounded
\* recursion, hence no RangeError), and a leaf on the cycle resolves to its
\* original reference string.
C1_CycleSafety ==
    /\ call.op \in {"resolveTokenValue", "resolveAllTokenReferences"}
            => call.ret # Throw("RangeError")
    /\ (call.op = "resolveTokenValue" /\ OnLeafCycle(call.arg, tokensFile))
            => call.ret = call.arg

\* C2: missing reference.  A whole-string reference with a dot-segment that
\* is absent from the tree resolves to the original bracketed string, in
\* resolveTokenValue and in the leaf of the resolved tree alike.
C2_MissingReference ==
    /\ (call.op = "resolveTokenValue" /\ IsReference(call.arg)
            /\ NodeAt(tokensFile, PathOf(call.arg), 1) = Undefined)
            => call.ret = call.arg
    /\ (FirstPass /\ ~IsThrow(call.ret))
            => \A p \in Resolutions(call.arg, call.ret) :
                  (IsReference(p[1]) /\ NodeAt(tokensFile, PathOf(p[1]), 1) = Undefined)
                        => p[2] = p[1]

\* C3: chained reference.  When the value resolved heads an acyclic chain of
\* value leaves t1 -> t2 -> ... -> tn that ends in a literal, resolveTokenValue
\* yields that literal, whatever the length of the chain.
C3_ChainedReference ==
    (call.op = "resolveTokenValue"
        /\ ChainEnd(call.arg, tokensFile, Hops(tokensFile)) # Undefined)
        => call.ret = ChainEnd(call.arg, tokensFile, Hops(tokensFile))

\* C3 witness: a chain of three hops has been resolved to its literal.
C3_Witness ==
    /\ call.op = "resolveTokenValue"
    /\ ChainLength(call.arg, tokensFile, Hops(tokensFile)) >= 3
    /\ ChainEnd(call.arg, tokensFile, Hops(tokensFile)) = Lit("x")
    /\ call.ret = Lit("x")

\* C4: resolved-tree completeness.  For an acyclic raw tree, the output of
\* resolveAllTokenReferences holds no string, at any depth, that is a
\* whole-string reference to a path that exists in the raw tree.
C4_ResolvedTreeComplete ==
    (FirstPass /\ ~IsThrow(call.ret) /\ Acyclic(tokensFile))
        => \A v \in StringsIn(call.ret) :
              ~(IsReference(v) /\ NodeAt(tokensFile, PathOf(v), 1) # Undefined)

\* C5: idempotence.  A second pass of resolveAllTokenReferences over the tree
\* the first pass returned changes nothing.
C5_Idempotent ==
    (call.op = "resolveAllTokenReferences" /\ call.pass = 2) => call.ret = call.arg

\* The model a call of transformTokens or loadTokens returned.
ModelReturned == call.op \in {"transformTokens", "loadTokens"} /\ IsObj(call.ret)

\* model.a.b.c... for a path of keys
At(node, keys) == NodeAt(node, keys, 1)

SemanticTarget == <<"semantic", ".", "colors", ".", "brand", ".", "primary">>
BackgroundColor == <<K("component"), K("button"), K("primary"), K("backgroundColor")>>

\* C6: end-to-end three-tier resolution.  With core.colors.primary.500 =
\* "#3b82f6", semantic.colors.brand.primary referencing it and
\* component.button.primary.backgroundColor referencing the semantic token,
\* the model holds component.button.primary.backgroundColor = "#3b82f6", when
\* the three tokens are {value: ...} leaves and when they are bare strings.
C6_ThreeTier ==
    (ModelReturned
        /\ \E bare \in BOOLEAN : tokensFile = TierTree(bare, bare, bare, SemanticTarget))
        => At(call.ret, BackgroundColor) = Lit("#3b82f6")

\* C7: normalization equivalence.  The dialects {colors: ...}, {color: ...}
\* and {core: {colors: ... {value: v}}} of one literal color v all yield the
\* same model.colors, namely {primary: {"500": v}}.
C7_NormalizationEquivalence ==
    \A d \in Dialects, v \in ColorLiterals :
        (ModelReturned /\ tokensFile = Dialect(d, v))
            => At(call.ret, <<K("colors")>>) = Shade500(v)

\* C7 witness: the core.colors dialect, with its {value} leaf, has been
\* normalized to the bare shade.
C7_Witness ==
    /\ ModelReturned
    /\ tokensFile = Dialect("core.colors", Lit("#fff"))
    /\ At(call.ret, <<K("colors"), K("primary"), <<"5", "0", "0">> >>) = Lit("#fff")

\* The leaves of a scalar-category subtree as <<path, value>>: the `value`
\* field of a leaf object, the scalar itself of a bare leaf.
RECURSIVE LeavesOf(_, _)
LeavesOf(obj, path) ==
    UNION {LET k == ObjectEntries(obj)[i][1]
               v == ObjectEntries(obj)[i][2]
           IN IF IsTokenLeaf(v) THEN {<<Append(path, k), GetProp(v, VALUE)>>}
              ELSE IF IsPlainObject(v) THEN LeavesOf(v, Append(path, k))
              ELSE {<<Append(path, k), v>>}
           : i \in 1..Len(ObjectEntries(obj))}

\* The path segments joined with "-".
RECURSIVE JoinDash(_)
JoinDash(path) ==
    IF Len(path) = 1 THEN path[1]
    ELSE JoinDash(SubSeq(path, 1, Len(path) - 1)) \o <<"-">> \o path[Len(path)]

Flattened == call.op = "flattenTokenCategory" /\ IsObj(call.ret)

\* C8 as stated: flattenTokenCategory returns exactly one entry per leaf of
\* its input, keyed by the dash-joined path and holding the leaf's value.
C8_FlattenOnePerLeaf ==
    Flattened =>
        /\ Len(call.ret.e) = Cardinality(LeavesOf(call.arg, <<>>))
        /\ \A l \in LeavesOf(call.arg, <<>>) : Member(call.ret, JoinDash(l[1])) = l[2]

\* The key flattenTokenCategory gives a leaf: its path segments joined with
\* "-", where empty segments at the head of the path add nothing.
RECURSIVE FlatKey(_)
FlatKey(path) ==
    IF Len(path) = 1 THEN path[1]
    ELSE IF path[1] = <<>> THEN FlatKey(Tail(path))
    ELSE JoinDash(path)

DistinctJoins(leaves) ==
    \A l1, l2 \in leaves : FlatKey(l1[1]) = FlatKey(l2[1]) => l1 = l2

\* C8 amended: flattenTokenCategory returns exactly one entry per distinct
\* dash-joined leaf path (an empty leading segment adds no dash), and the
\* entry holds the value of a leaf of that path as resolveTokenValue returns
\* it against this.rawTokens; hence one entry per leaf when the joined paths
\* of the leaves are distinct.
C8_FlattenOnePerPath ==
    Flattened =>
        LET leaves == LeavesOf(call.arg, <<>>)
            keys == {FlatKey(l[1]) : l \in leaves}
        IN /\ {call.ret.e[i][1] : i \in 1..Len(call.ret.e)} = keys
           /\ Len(call.ret.e) = Cardinality(keys)
           /\ \A i \in 1..Len(call.ret.e) :
                 \E l \in leaves :
                    /\ FlatKey(l[1]) = call.ret.e[i][1]
                    /\ call.ret.e[i][2] = resolveTokenValue(l[2], rawTokens, rawTokens, 1)
           /\ DistinctJoins(leaves) => Len(call.ret.e) = Cardinality(leaves)

\* C8 witness: the subtree {sm: {value: "4px"}, group: {lg: {value: "8px"}}}
\* has been flattened to {sm: "4px", "group-lg": "8px"}.
C8_Witness ==
    /\ Flattened
    /\ call.arg = MkObj(<< <<K("sm"), Leaf(Lit("4px"))>>,
                           <<K("group"), MkObj(<< <<K("lg"), Leaf(Lit("8px"))>> >>)>> >>)
    /\ call.ret = MkObj(<< <<K("sm"), Lit("4px")>>, <<<<"group", "-", "lg">>, Lit("8px")>> >>)

ModelCategories ==
    {K("colors"), K("spacing"), K("typography"), K("borderRadius"), K("sizing"),
     K("shadows"), K("opacity"), K("zIndex"), K("transitions"), K("breakpoints"),
     K("semantic"), K("component")}

Core(c) == <<K("core"), c>>
Top(c) == <<c>>

\* The categories with a built-in default set: where the model holds them,
\* the default set, under which aliases the input supplies them, and whether
\* an empty result is replaced by the defaults (borderRadius, fontFamily) or
\* only a missing one (the extractTokenCategory family).
DefaultedSets ==
    {[at |-> <<K("borderRadius")>>, def |-> DefaultBorderRadius, whenEmpty |-> TRUE,
      aliases |-> <<Core(K("borderRadius")), Top(K("borderRadius")), Top(K("radius"))>>],
     [at |-> <<K("shadows")>>, def |-> DefaultShadows, whenEmpty |-> FALSE,
      aliases |-> <<Core(K("shadows")), Top(K("shadows"))>>],
     [at |-> <<K("opacity")>>, def |-> DefaultOpacity, whenEmpty |-> FALSE,
      aliases |-> <<Core(K("opacity")), Top(K("opacity"))>>],
     [at |-> <<K("zIndex")>>, def |-> DefaultZIndex, whenEmpty |-> FALSE,
      aliases |-> <<Core(K("zIndex")), Top(K("zIndex"))>>],
     [at |-> <<K("transitions"), K("duration")>>, def |-> DefaultDuration, whenEmpty |-> FALSE,
      aliases |-> <<Core(K("transitionDuration")), Top(K("transitionDuration"))>>],
     [at |-> <<K("transitions"), K("easing")>>, def |-> DefaultEasing, whenEmpty |-> FALSE,
      aliases |-> <<Core(K("transitionEasing")), Top(K("transitionEasing"))>>],
     [at |-> <<K("breakpoints")>>, def |-> DefaultBreakpoints, whenEmpty |-> FALSE,
      aliases |-> <<Core(K("breakpoints")), Top(K("breakpoints"))>>],
     [at |-> <<K("typography"), K("fontFamily")>>, def |-> DefaultFontFamily, whenEmpty |-> TRUE,
      aliases |-> <<Core(K("typography")), Top(K("typography")), Top(K("text"))>>]}

\* The input supplies something as an object (possibly an empty one).
Supplied(tree, path) == IsPlainObject(At(tree, path))

RECURSIVE FirstTruthy(_, _, _)
FirstTruthy(tree, aliases, i) ==
    IF i > Len(aliases) THEN Undefined
    ELSE IF Truthy(At(tree, aliases[i])) THEN At(tree, aliases[i])
    ELSE FirstTruthy(tree, aliases, i + 1)

\* The subtree a defaulted category is read from: the first truthy alias,
\* and for fontFamily its "font family" (text dialect) or fontFamily member.
SourceOf(tree, d) ==
    LET first == FirstTruthy(tree, d.aliases, 1)
    IN IF d.at # <<K("typography"), K("fontFamily")>> \/ first = Undefined THEN first
       ELSE IF Truthy(At(tree, Top(K("text")))) THEN Member(first, K("font family"))
       ELSE Member(first, K("fontFamily"))

ColorSources(tree) ==
    LET coreColors == At(tree, <<K("core"), K("colors")>>)
        semanticColors == At(tree, <<K("semantic"), K("colors")>>)
    IN IF Truthy(coreColors) \/ Truthy(semanticColors)
       THEN {x \in {coreColors, semanticColors} : Truthy(x)}
       ELSE IF Truthy(At(tree, <<K("color")>>)) THEN {At(tree, <<K("color")>>)}
       ELSE IF Truthy(At(tree, <<K("colors")>>)) THEN {At(tree, <<K("colors")>>)}
       ELSE {}

\* The values model.colors holds at its category/shade positions.
ShadeValues(colors) ==
    UNION {IF IsObj(colors.e[i][2])
           THEN {colors.e[i][2].e[j][2] : j \in 1..Len(colors.e[i][2].e)}
           ELSE {colors.e[i][2]}
           : i \in 1..Len(colors.e)}

\* C11: colors keep exactly two levels of nesting.  No entry
\* model.colors[category][shade] is a group object, and every color leaf of
\* the input is the value of some category/shade position of model.colors.
C11_ColorsTwoLevels ==
    ModelReturned =>
        LET colors == At(call.ret, <<K("colors")>>)
            resolved == At(call.ret, <<K("_resolvedTokens")>>)
        IN /\ \A v \in ShadeValues(colors) : ~IsPlainObject(v)
           /\ \A src \in {x \in ColorSources(resolved) : IsPlainObject(x)} :
                 \A l \in LeavesOf(src, <<>>) : l[2] \in ShadeValues(colors)

-----------------------------------------------------------------------------
(* What the specification says of the transform engine *)

\* C12: an unknown platform is the identity.  For every tree and every
\* platform name outside web, ios, android, react and flutter,
\* createPlatformTokens(tree, platform) returns a tree equal to the input.
C12_UnknownPlatformIdentity ==
    (call.op = "createPlatformTokens" /\ call.names \notin KnownPlatforms)
        => call.ret = call.arg

\* The sorts of leaf the matcher of size/rem accepts.
SizeTypes == {Lit("spacing"), Lit("sizing"), Lit("borderRadius")}

\* The text of a decimal number: an optional sign, digits, and optionally a
\* point followed by digits.
IsDigit(c) == \E i \in 1..10 : Digits[i] = c
Unsigned(s) == IF s # <<>> /\ s[1] = "-" THEN Tail(s) ELSE s
PointAt(s) == IF \E i \in 1..Len(s) : s[i] = "." THEN CHOOSE i \in 1..Len(s) : s[i] = "." ELSE Len(s) + 1
IsNumberText(s) ==
    LET u == Unsigned(s)
        p == PointAt(u)
    IN /\ p > 1
       /\ p # Len(u)
       /\ \A i \in 1..Len(u) : i # p => IsDigit(u[i])

RECURSIVE DigitsValue(_)
DigitsValue(ds) ==
    IF ds = <<>> THEN 0
    ELSE 10 * DigitsValue(SubSeq(ds, 1, Len(ds) - 1))
            + (CHOOSE i \in 0..9 : Digits[i + 1] = ds[Len(ds)])

\* A number text as sign, digits read as one integer, and count of decimals.
Scaled(s) ==
    LET u == Unsigned(s)
        p == PointAt(u)
    IN [neg |-> u # s,
        m |-> DigitsValue(SelectSeq(u, IsDigit)),
        k |-> IF p > Len(u) THEN 0 ELSE Len(u) - p]

\* r = n / 16 for two number texts
IsSixteenth(r, n) ==
    /\ Scaled(r).m * 16 * Pow10(Scaled(n).k) = Scaled(n).m * Pow10(Scaled(r).k)
    /\ Scaled(r).m # 0 => Scaled(r).neg = Scaled(n).neg

\* The way JavaScript writes a number: no sign on zero, no needless zero
\* before the integer part or after the fraction.
IsPlainNumberText(r) ==
    LET u == Unsigned(r)
    IN /\ IsNumberText(r)
       /\ Scaled(r).m = 0 => r = <<"0">>
       /\ Len(u) > 1 /\ u[1] = "0" => u[2] = "."
       /\ Scaled(r).k > 0 => u[Len(u)] # "0"

Rem == <<"r", "e", "m">>
IsPixels(v) ==
    /\ IsStr(v)
    /\ EndsWithText(v.s, <<"p", "x">>)
    /\ IsNumberText(SubSeq(v.s, 1, Len(v.s) - 2))
EndsInPx(v) == IsStr(v) /\ EndsWithText(v.s, <<"p", "x">>)

SizeRemCalled ==
    /\ call.op = "applyTransforms"
    /\ call.names = Arr(<<Lit("size/rem")>>)
    /\ call.arg \in SizeTrees
SmOf(tree) == At(tree, <<K("spacing"), K("sm")>>)

\* "<n/16>rem" for the value "<n>px"
IsRemOf(out, v) ==
    /\ IsStr(out)
    /\ EndsWithText(out.s, Rem)
    /\ IsPlainNumberText(SubSeq(out.s, 1, Len(out.s) - 3))
    /\ IsSixteenth(SubSeq(out.s, 1, Len(out.s) - 3), SubSeq(v.s, 1, Len(v.s) - 2))

\* C15 as stated: size/rem applied through applyTransforms to any token leaf
\* whose value is a string "<n>px" yields "<n/16>rem", and leaves every value
\* that does not end in px unchanged.
C15_SizeRemOfAnyLeaf ==
    SizeRemCalled =>
        LET v == GetProp(SmOf(call.arg), VALUE)
        IN /\ IsPixels(v) => IsRemOf(GetProp(SmOf(call.ret), VALUE), v)
           /\ ~EndsInPx(v) => call.ret = call.arg

\* C15 amended: size/rem applied through applyTransforms to a token leaf of
\* type spacing, sizing or borderRadius whose value is a string "<n>px"
\* yields "<n/16>rem" and changes nothing else of the leaf; a leaf of another
\* type or without type, and every value that does not end in px, is left
\* unchanged.
C15_SizeRemOfSizes ==
    SizeRemCalled =>
        LET leaf == SmOf(call.arg)
            v == GetProp(leaf, VALUE)
        IN /\ (IsPixels(v) /\ GetProp(leaf, K("type")) \in SizeTypes)
                => /\ IsRemOf(GetProp(SmOf(call.ret), VALUE), v)
                   /\ SmOf(call.ret) = Obj(SetEntry(leaf.e, VALUE, GetProp(SmOf(call.ret), VALUE)))
           /\ (~EndsInPx(v) \/ GetProp(leaf, K("type")) \notin SizeTypes)
                => call.ret = call.arg

\* C15 witness: a spacing leaf "24px" came back as "1.5rem".
C15_Witness ==
    /\ SizeRemCalled
    /\ SmOf(call.arg) = TypedLeaf(Px(<<"2", "4">>), "spacing")
    /\ SmOf(call.ret) = TypedLeaf(Str(<<"1", ".", "5", "r", "e", "m">>), "spacing")

\* The token leaves of a tree, each with its path.
RECURSIVE TokensOf(_, _)
TokensOf(node, path) ==
    UNION {LET k == ObjectEntries(node)[i][1]
               v == ObjectEntries(node)[i][2]
           IN IF IsTokenLeaf(v) THEN {<<Append(path, k), v>>}
              ELSE IF TypeofObject(v) /\ v # Null THEN TokensOf(v, Append(path, k))
              ELSE {}
           : i \in 1..Len(ObjectEntries(node))}

\* Everything a tree holds under its root that is no token leaf.
RECURSIVE GroupsOf(_)
GroupsOf(node) ==
    UNION {LET v == ObjectEntries(node)[i][2]
           IN IF IsTokenLeaf(v) THEN {}
              ELSE IF TypeofObject(v) /\ v # Null THEN {v} \cup GroupsOf(v)
              ELSE {v}
           : i \in 1..Len(ObjectEntries(node))}

FiltersCalled == call.op = "applyFilters" /\ TypeofObject(call.arg) /\ call.arg # Null

\* The leaf is somewhere in the tree under its own key.
Holds(tree, tk) ==
    \E o \in TokensOf(tree, <<>>) : o[2] = tk[2] /\ o[1][Len(o[1])] = tk[1][Len(tk[1])]

\* C13: filter conjunction.  A token leaf of the input is present in the
\* output of applyFilters(tree, names) if and only if every filter named in
\* names accepts it, whatever the number and the order of the names.
C13_FilterConjunction ==
    FiltersCalled =>
        \A tk \in TokensOf(call.arg, <<>>) :
            Holds(call.ret, tk)
                <=> \A i \in 1..Len(call.names.a) :
                        call.names.a[i] \in Filters
                            => Accepts(call.names.a[i], Token(tk[1], tk[2]))

\* C13 witness: with the filters colors, all and colors, of a color leaf
\* and a spacing leaf the color leaf alone came back.
C13_Witness ==
    /\ FiltersCalled
    /\ call.names = Arr(<<Lit("colors"), Lit("all"), Lit("colors")>>)
    /\ call.arg = MkObj(<< <<K("white"), White>>, <<K("sm"), Small>> >>)
    /\ call.ret = MkObj(<< <<K("white"), White>> >>)

\* C14: filter pruning and shape.  For every tree and non-empty filter list
\* the output of applyFilters holds no empty group, its leaves sit at the
\* path they have in the input, and it holds nothing that is not a leaf of
\* the input or a group with a leaf beneath it.
C14_PrunedShape ==
    (FiltersCalled /\ Len(call.names.a) > 0) =>
        /\ TokensOf(call.ret, <<>>) \subseteq TokensOf(call.arg, <<>>)
        /\ \A g \in GroupsOf(call.ret) :
                TypeofObject(g) /\ g # Null /\ TokensOf(g, <<>>) # {}

-----------------------------------------------------------------------------
(* What the specification says of the validator *)

Validated == call.op = "validate"
ObjectRoot(v) == v.t \in {"object", "array"}
Reported(ret, text, at) ==
    /\ ~IsThrow(ret)
    /\ ~ret.isValid
    /\ \E i \in 1..Len(ret.errors) : ret.errors[i] = Msg(text, at)
ColorsReported(ret) == Reported(ret, "Missing colors category - this is required", <<>>)
PrimaryReported(ret) ==
    Reported(ret, "Missing required color category", <<K("colors"), K("primary")>>)

\* colors holds no primary, or a primary that is null or an empty object
LacksPrimary(colors) ==
    \/ ~ObjectRoot(colors)
    \/ Member(colors, K("primary")) \in {Undefined, Null, EmptyObject, Arr(<<>>)}

\* C16 as stated: validate returns isValid = false with an error naming
\* colors for every object tree without top-level colors key, and with an
\* error naming colors.primary for every tree whose colors exists but lacks a
\* non-empty primary, whatever the lists of the configuration.
C16_MandatoryColors ==
    (Validated /\ ObjectRoot(call.arg)) =>
        /\ Member(call.arg, K("colors")) = Undefined => ColorsReported(call.ret)
        /\ (Member(call.arg, K("colors")) # Undefined
                /\ LacksPrimary(Member(call.arg, K("colors"))))
            => PrimaryReported(call.ret)

\* C16 amended: validate returns isValid = false with the error 'Missing
\* colors category' for every object tree whose top-level colors is absent
\* or null, and with the error naming colors.primary for every tree whose
\* colors is an object without primary or with a primary that is null or
\* empty, whatever the lists of the configuration.
C16_MandatoryColorsOfObjects ==
    (Validated /\ ObjectRoot(call.arg)) =>
        /\ Member(call.arg, K("colors")) \in {Undefined, Null} => ColorsReported(call.ret)
        /\ (ObjectRoot(Member(call.arg, K("colors")))
                /\ LacksPrimary(Member(call.arg, K("colors"))))
            => PrimaryReported(call.ret)

\* C16 witness: under the configuration with empty lists a tree whose colors
\* hold an empty primary was reported.
C16_Witness ==
    /\ Validated
    /\ configFile = Config(<<>>, <<>>, Bool(FALSE))
    /\ call.arg = MkObj(<< <<K("colors"), Shade(K("primary"), EmptyObject)>> >>)
    /\ PrimaryReported(call.ret)
    /\ Len(call.ret.errors) = 1

\* C17: the documented Token Studio structure validates.  With required =
\* ['core.colors', 'core.spacing', 'core.typography'] and a tree holding
\* well-formed core.colors (with primary), core.spacing and core.typography
\* as {value, type} leaves, validate reports no 'Missing required token
\* category' and no 'Missing colors category' error and returns isValid =
\* true.
C17_TokenStudioValidates ==
    (Validated /\ configFile = DocumentedConfig
        /\ call.arg = MkObj(<< <<K("core"), TokenStudioCore>> >>))
        => /\ ~IsThrow(call.ret)
           /\ call.ret.isValid
           /\ \A i \in 1..Len(call.ret.errors) :
                call.ret.errors[i].text \notin
                    {"Missing required token category",
                     "Missing colors category - this is required"}

\* The checks of validate, each run alone
ChecksOf(tk, cfg) ==
    <<validateStructure(tk), validateRequiredCategories(tk, cfg),
      validateOptionalCategories(tk, cfg), validateColors(tk), validateSpacing(tk),
      validateTypography(tk), validateConsistency(tk)>>

\* C18: the validator never throws on bad data.  For every root value
\* validate returns a diagnostics object; for a root that is no object it
\* has isValid = false and the error 'Tokens must be an object'; for an
\* object root the errors and warnings of every check are in it, whatever
\* earlier checks reported.
C18_NeverThrows ==
    Validated =>
        /\ ~IsThrow(call.ret)
        /\ ~ObjectRoot(call.arg) => Reported(call.ret, "Tokens must be an object", <<>>)
        /\ ObjectRoot(call.arg) =>
            \A i \in 1..7 :
                LET check == ChecksOf(call.arg, configFile)[i]
                IN /\ \A j \in 1..Len(check.e) :
                        \E k \in 1..Len(call.ret.errors) : call.ret.errors[k] = check.e[j]
                   /\ \A j \in 1..Len(check.w) :
                        \E k \in 1..Len(call.ret.warnings) : call.ret.warnings[k] = check.w[j]

-----------------------------------------------------------------------------
(* What the specification says of sync and loadTokens *)

\* The validation of the tokens a run of sync read
Validation == validate(rawTokens, configFile)

\* C19: errors gate generation, warnings do not.  In every run of sync the
\* file generator and the git manager are called only if validation returned
\* isValid = true or options.force is set; when validation has errors and
\* force is not set, sync rejects with 'Token validation failed' with
\* this.tokens as it was and transformTokens not run; a validation result
\* without errors, with or without warnings, lets the run go on.
C19_ErrorsGate ==
    [][/\ Len(log') > Len(log) =>
            \E c \in Callers :
                /\ pc[c].at \in {"generate", "commit"}
                /\ pc[c].force \/ (~IsThrow(Validation) /\ Validation.isValid)
       /\ \A c \in Callers :
            (pc[c].at = "validate" /\ pc'[c] # pc[c] /\ ~IsThrow(Validation)) =>
                /\ (~Validation.isValid /\ ~pc[c].force) =>
                        /\ pc'[c] = Done(Failed("Token validation failed"))
                        /\ tokens' = tokens
                        /\ log' = log
                /\ Validation.isValid => pc'[c].at = "transform"
       /\ \A c \in Callers :
            (pc[c].at = "transform" /\ pc'[c] # pc[c]) =>
                pc[c].force \/ (~IsThrow(Validation) /\ Validation.isValid)]_vars

\* C19 witness: after a run that generated files, a run on a rewritten file
\* with errors was rejected and this.tokens still holds the earlier model.
C19_Witness ==
    /\ pc[1] = Done(Failed("Token validation failed"))
    /\ ~IsThrow(Validation) /\ Len(Validation.errors) > 0
    /\ IsObj(tokens)
    /\ At(tokens, <<K("_resolvedTokens")>>) # rawTokens
    /\ Len(log) > 0

\* The callers that hold a load: between taking isLoading and the end of
\* their call
InFlight == {c \in Callers : pc[c].at \in LoadingAt}

\* Caller c returns in this step without having held the load
ReturnsUnloaded(c) == c \notin InFlight /\ pc[c].at # "done" /\ pc'[c].at = "done"

\* At most one load is in flight, and isLoading holds exactly while one is; a
\* caller that polls or arrives while isLoading holds takes no load
SingleFlight ==
    /\ Cardinality(InFlight) <= 1
    /\ isLoading <=> InFlight # {}
    /\ \A c \in Callers :
        (c \notin InFlight /\ isLoading) => c \notin InFlight'
    /\ \A c \in Callers : pc[c].at = "wait" => pc'[c].at \in {"wait", "done"}

\* C20 as stated: under every interleaving of loadTokens calls at most one
\* load is in flight; a call that arrives while isLoading holds starts no
\* second read and returns only once no load is in flight.
C20_SingleFlightAlways ==
    [][/\ SingleFlight
       /\ Cardinality(InFlight') <= 1
       /\ \A c \in Callers : ReturnsUnloaded(c) => ~isLoading]_vars

\* C20, amended: under every interleaving of loadTokens calls at most one load
\* is in flight; a call that arrives while isLoading holds starts no second
\* read and, unless it is answered at once from the cached model, returns
\* only once no load is in flight.
C20_SingleFlight ==
    [][/\ SingleFlight
       /\ Cardinality(InFlight') <= 1
       /\ isLoading' <=> InFlight' # {}
       /\ \A c \in Callers :
            ReturnsUnloaded(c) =>
                \/ ~isLoading
                \/ pc[c] = Idle /\ Truthy(tokens) /\ pc'[c] = Done(tokens)]_vars

\* C20: one caller awaits the read, a second polls, and a third was answered
\* from the cache in the meantime
C20_Witness ==
    /\ pc[1].at = "read"
    /\ pc[2].at = "wait"
    /\ pc[3] = Done(tokens)
    /\ Truthy(tokens)
    /\ isLoading

\* The error is among those validate returned
Listed(ret, text, at) ==
    ~IsThrow(ret) /\ \E i \in 1..Len(ret.errors) : ret.errors[i] = Msg(text, at)

\* The color an entry under colors.<category> stands for: the `value` of a
\* Token Studio leaf object, the entry itself otherwise
ColorOf(entry) == IF IsValueLeaf(entry) THEN OwnValue(entry.e, VALUE) ELSE entry

\* The <<category, shade, entry>> triples under the colors of a tree
ColorEntries(tree) ==
    IF ~IsObj(tree) \/ ~IsObj(Member(tree, K("colors"))) THEN {}
    ELSE LET colors == Member(tree, K("colors")).e
         IN UNION {IF IsObj(colors[i][2])
                   THEN {<<colors[i][1], colors[i][2].e[j][1], colors[i][2].e[j][2]>> :
                            j \in 1..Len(colors[i][2].e)}
                   ELSE {} : i \in 1..Len(colors)}

\* C21: validate reports 'Invalid color value' for the entry at
\* colors.<category>.<shade> exactly when the leaf's value (the bare value, or
\* the `value` field of a Token Studio leaf object) is no hex, rgb()/rgba(),
\* hsl()/hsla(), alphabetic name or whole-string reference; a leaf object
\* {value: "#fff", type: "color"} under colors.primary is accepted.
C21_ColorLeafValues ==
    (Validated /\ ~IsThrow(call.ret)) =>
        \A entry \in ColorEntries(call.arg) :
            Listed(call.ret, "Invalid color value", <<K("colors"), entry[1], entry[2]>>)
                <=> ~isValidColor(ColorOf(entry[3]))

-----------------------------------------------------------------------------
(* What the specification says of the order of transforms *)

TransformsCalled ==
    /\ call.op = "applyTransforms"
    /\ call.names.t = "array"
    /\ Len(call.names.a) > 0

\* The matcher of a registered transform accepts the token; a transform
\* without matcher accepts every token.
Accepted(transform, token) ==
    IF transform.kind = "builtin"
    THEN CASE transform.name = Lit("color/hex") -> token.type = Lit("color")
           [] transform.name = Lit("color/hexAlpha") -> token.type = Lit("color")
           [] transform.name = Lit("size/rem") -> token.type \in SizeTypes
           [] transform.name = Lit("typography/css/shorthand") ->
                token.type = Lit("typography")
           [] OTHER -> TRUE
    ELSE CASE transform.matcher = "endsWith a" ->
                LET text == TemplateText(token.value)
                IN Len(text) > 0 /\ text[Len(text)] = "a"
           [] transform.matcher = "name includes -" -> "-" \in {token.name[i] : i \in DOMAIN token.name}
           [] OTHER -> TRUE

\* What the transformer of a registered transform makes of a token
Outcome(transform, token) ==
    IF transform.kind = "builtin" THEN BuiltIn(transform.name, token)
    ELSE IF transform.type = "value"
    THEN [token EXCEPT !.value = Str(TemplateText(token.value) \o <<transform.suffix>>)]
    ELSE token

\* The token after the first n names of the list: the n-th transform, if it
\* is registered and accepts it, applied to the token the first n - 1 left
RECURSIVE After(_, _, _)
After(names, n, token) ==
    IF n = 0 THEN token
    ELSE LET before == After(names, n - 1, token)
         IN IF IsThrow(before) THEN before
            ELSE IF names[n] \notin DOMAIN transforms THEN before
            ELSE IF ~Accepted(transforms[names[n]], before) THEN before
            ELSE Outcome(transforms[names[n]], before)

\* C22: for every leaf, applyTransforms applies the named transforms in the
\* order of the transformNames array: a transform fires only if it is
\* registered and its matcher, when it has one, accepts the token as the
\* preceding transforms left it; a transform without matcher always fires;
\* names that are not registered are skipped without error.  (A transform
\* that raises on the token ends the call with its error.)
C22_TransformOrder ==
    (TransformsCalled /\ TypeofObject(call.arg) /\ call.arg # Null) =>
        LET ends == {<<tk[1], After(call.names.a, Len(call.names.a), Token(tk[1], tk[2]))>> :
                        tk \in TokensOf(call.arg, <<>>)}
        IN IF \E end \in ends : IsThrow(end[2])
           THEN IsThrow(call.ret)
           ELSE /\ ~IsThrow(call.ret)
                /\ \A end \in ends :
                        GetProp(At(call.ret, end[1]), VALUE) = end[2].value

\* C22 witness: with append/a and append/b registered, the list append/b,
\* append/a made "4pxba" of "4px"
C22_Witness ==
    /\ TransformsCalled
    /\ call.names = Arr(<<Lit("append/b"), Lit("append/a")>>)
    /\ {Lit("append/a"), Lit("append/b")} \subseteq DOMAIN transforms
    /\ SmOf(call.arg) = TypedLeaf(Px(<<"4">>), "spacing")
    /\ GetProp(SmOf(call.ret), VALUE) = Str(<<"4", "p", "x", "b", "a">>)

\* A tree with the `value` of every token leaf blanked: its keys, its
\* nesting and the other fields of its leaves
RECURSIVE Frame(_)
Frame(node) ==
    CASE IsTokenLeaf(node) -> Obj(SetEntry(node.e, VALUE, Null))
      [] node.t = "object" -> Obj([i \in 1..Len(node.e) |-> <<node.e[i][1], Frame(node.e[i][2])>>])
      [] node.t = "array" -> Arr([i \in 1..Len(node.a) |-> Frame(node.a[i])])
      [] OTHER -> node

\* C29: for every tree and transform list applyTransforms returns a tree
\* with the keys, the nesting and the non-value fields of the input, only the
\* `value` of leaves can differ; a list of name transforms only (name/kebab)
\* returns a tree equal to the input.
C29_TransformFrame ==
    (TransformsCalled /\ call.arg.t = "object") =>
        /\ ~IsThrow(call.ret)
        /\ Frame(call.ret) = Frame(call.arg)
        /\ call.names = Arr(<<Lit("name/kebab")>>) => call.ret = call.arg

-----------------------------------------------------------------------------
(* What the specification says of the build hooks *)

\* The context after the first n callbacks of a list: what the n-th returned
\* if it returned a value, the context the first n - 1 left otherwise
RECURSIVE LastReturned(_, _, _)
LastReturned(list, n, context) ==
    IF n = 0 THEN context
    ELSE LET before == LastReturned(list, n - 1, context)
             result == Settled(list[n], before)
         IN IF IsThrow(result) \/ result = Undefined THEN before ELSE result

\* C23: executeHooks runs the callbacks of a phase one at a time in
\* registration order; an error thrown or rejected by a callback is caught,
\* the context stays the value of the last successful callback, the
\* remaining callbacks still run and executeHooks resolves, never rejects; a
\* callback returning undefined leaves the context unchanged; a name that is
\* no phase returns the context untouched.
C23_HookIsolation ==
    call.op = "executeHooks" =>
        LET context == IF call.arg = Undefined THEN EmptyObject ELSE call.arg
        IN IF call.names \in Phases
           THEN /\ call.ret.t = "resolved"
                /\ call.ret.ran = [j \in 1..Len(hooks[call.names]) |-> j]
                /\ call.ret.context =
                        LastReturned(hooks[call.names], Len(hooks[call.names]), context)
           ELSE call.ret = Resolved(context, <<>>)

-----------------------------------------------------------------------------
(* What the specification says of runs of sync *)

\* The phases of a run in the order of sync, 536-585
PhaseOrder ==
    <<"read", "beforeProcess", "beforeValidate", "validate", "afterValidate", "transform",
      "afterProcess", "beforeGenerate", "generate", "afterGenerate", "commit">>

Started(c) == pc[c].at \notin {"idle", "init", "exists"}
Succeeded(c) == pc[c].at = "done" /\ pc[c].ret = Bool(TRUE)
Commits(c) == Truthy(GetProp(GetProp(config, K("git")), K("enabled"))) /\ ~pc[c].noGit

\* The phases the run has completed are the first of the order, each once,
\* and the phase it awaits is the next of them
InOrder(c) ==
    /\ pc[c].phases = SubSeq(PhaseOrder, 1, Len(pc[c].phases))
    /\ pc[c].at # "done" => pc[c].at = PhaseOrder[Len(pc[c].phases) + 1]
    /\ Succeeded(c) => Len(pc[c].phases) = IF Commits(c) THEN 11 ELSE 10
    /\ (pc[c].at = "done" /\ ~Succeeded(c)) => Len(pc[c].phases) < 11

\* The phases for which a callback is registered that throws or rejects
FailingPhases ==
    {phase \in Phases : \E i \in 1..Len(hooks[phase]) : hooks[phase][i].does \in {"throw", "reject"}}

\* C24 as stated: in every run of sync the phases occur once each in the
\* order read, beforeProcess, beforeValidate, validation, afterValidate,
\* transform, afterProcess, beforeGenerate, generation, afterGenerate, commit
\* (the last only with config.git.enabled and without options.noGit), none
\* starting before the one before it has completed; and a failure in any
\* phase means that no later phase runs.
C24_PhaseOrderStopsAtFailure ==
    \A c \in Runs :
        Started(c) =>
            /\ InOrder(c)
            /\ \A n \in 1..Len(pc[c].phases) :
                    pc[c].phases[n] \in FailingPhases => n = Len(pc[c].phases)

\* C24, amended: in every run of sync the phases occur once each in that
\* order, none starting before the one before it has completed; a run that
\* ends with an error has not completed the phase it failed in nor any later
\* one, where a failure is a failed read, validation errors without force,
\* an error raised by validate, transformTokens, generateAll or
\* commitChanges, or a rejected executeHooks; the error of a hook callback
\* that executeHooks catches is no failure of the run.
C24_PhaseOrder ==
    \A c \in Runs : Started(c) => InOrder(c)

\* C24 witness: a run with a callback throwing in beforeProcess went through
\* all eleven phases
C24_Witness ==
    /\ Succeeded(1)
    /\ pc[1].phases = PhaseOrder
    /\ "beforeProcess" \in FailingPhases

\* C25: when two runs of sync on one processor overlap, the model each run
\* hands to generateAll is the model of the tree that run itself read: its
\* references resolved in that tree, with the metadata of afterProcess.
C25_Isolation ==
    \A c \in Runs :
        (Started(c) /\ pc[c].handed # Undefined) =>
            pc[c].handed = AfterProcess(transformTokens(pc[c].raw, pc[c].raw))

-----------------------------------------------------------------------------
(* What the specification says of the validator's configuration *)

\* The calls of validate that ran their checks
RanChecks == {c \in Callers : pc[c].at = "done" /\ ~IsThrow(pc[c].ret)}

\* C26: across the validate calls on one TokenValidator, overlapping ones
\* included, loadConfig is invoked at most once and every call validates
\* against the same configuration.
C26_ConfigLoadedOnce ==
    /\ Len(log) <= 1
    /\ \A c \in RanChecks, d \in RanChecks : pc[c].against = pc[d].against

-----------------------------------------------------------------------------
(* What the specification says of the outcome of loadTokens *)

\* A caller holds the load: it is between `this.isLoading = true` (56) and
\* the finally (79-81)
HoldsLoad(c) == pc[c].at \in {"init", "exists", "read"}

\* C27: every loadTokens call rejects with an error or resolves with a
\* non-null model, a caller that waited on a load that failed included; and
\* isLoading is false again once no call holds the load.
C27_LoadOutcome ==
    /\ \A c \in Callers :
          pc[c].at = "done" => (pc[c].ret.t = "throw" \/ pc[c].ret.t # "null")
    /\ (\A c \in Callers : ~HoldsLoad(c)) => ~isLoading

-----------------------------------------------------------------------------
(* What the specification says of the cached model *)

\* getTokens returned a model
GotModel == call.op = "getTokens" /\ call.ret.t # "throw"

\* getTokens threw 'Tokens not loaded'
NotLoaded ==
    /\ call.op = "getTokens"
    /\ call.ret = [t |-> "throw", name |-> "Error",
                   message |-> "Tokens not loaded. Call loadTokens() first."]

\* C28: getTokens returns a model exactly when a load or sync has succeeded
\* since the last refresh or change event, and throws 'Tokens not loaded'
\* otherwise; loadTokens(false) with a cached model returns that model
\* without reading the file; loadTokens(true) re-reads and replaces it.
C28_CacheLifecycle ==
    /\ call.op = "getTokens" =>
          IF Len(log) > 0 THEN GotModel ELSE NotLoaded
    /\ (call.op = "loadTokens" /\ call.arg = Bool(FALSE) /\ call.cached.t # "null") =>
          (call.ret = call.cached /\ ~call.read /\ tokens = call.cached)
    /\ (call.op = "loadTokens" /\ call.arg = Bool(TRUE)) =>
          (call.read /\ tokens = call.ret)

-----------------------------------------------------------------------------
(* What the specification says of the validate command *)

\* The command has run
Ran == call.op = "validate command"

\* The configuration loads and TokenValidator.validate accepts the tree the
\* tokens file holds
AcceptsFile ==
    /\ configFile.t = "object"
    /\ validate(tokensFile, configFile).t = "diagnostics"
    /\ validate(tokensFile, configFile).isValid

Printed(line) == \E i \in 1..Len(log) : log[i] = line

\* C30: whenever the configured tokens file holds a tree that
\* TokenValidator.validate accepts, the validate command reports 'Token
\* validation passed!' and does not call process.exit(1); it exits with code
\* 1 only when the tree has validation errors or the configuration cannot be
\* loaded.
C30_ValidateCommand ==
    Ran => /\ AcceptsFile =>
                (Printed("Token validation passed!") /\ ~Printed("process.exit(1)"))
           /\ Printed("process.exit(1)") => ~AcceptsFile

====
